---- MODULE Spec2Model ----
(***************************************************************************)
(* Model of the codemod rule engine of PatchMind                           *)
(* (src/botdas/codemod_botda/agent.py): the process-wide session state     *)
(* _STATE, the built-in and custom rules, the transform pipeline, the file *)
(* selector, and the control-surface operations load / set_dry_run /       *)
(* add_custom_rule / suggest / generate_diffs / apply_diffs / export.      *)
(*                                                                         *)
(* Python dicts are functions whose DOMAIN is the set of keys present, so  *)
(* `k in d` is k \in DOMAIN d and an empty dict is the empty function.     *)
(* File paths and package names are strings.  File contents are sequences  *)
(* of text fragments (Tok); a regular expression is modelled by the set of *)
(* fragments whose text it matches, a substring test by the set of         *)
(* fragments whose text holds the substring.                               *)
(***************************************************************************)
EXTENDS Integers, Sequences, FiniteSets, TLC

VARIABLES
    heap,             \* the snapshot objects in memory: object id -> dict
    repo,             \* _STATE["repo"]: id of the original snapshot object
    repo_label,       \* _STATE["repo_label"]
    artifacts,        \* _STATE["artifacts"]
    dry_run,          \* _STATE["dry_run"]
    package_name,     \* _STATE["package_name"]
    current_version,  \* _STATE["current_version"]
    target_version,   \* _STATE["target_version"]
    last_guidance,    \* _STATE["last_guidance"]
    custom_rules,     \* _STATE["custom_rules"]
    last_diffs,       \* _STATE["last_diffs"]
    modified_repo,    \* _STATE["modified_repo"]: object id, or NoneRef
    ret,              \* what the last operation returned (or that it raised)
                      \* and the file it wrote
    probe,            \* input and output of the pure-function runs
    crawler           \* the running call of the documentation crawler
                      \* (src/botdas/crawler_botda/agent.py), if any

vars == <<heap, repo, repo_label, artifacts, dry_run, package_name, current_version,
          target_version, last_guidance, custom_rules, last_diffs,
          modified_repo, ret, probe, crawler>>

-----------------------------------------------------------------------------
(* Python values *)

EmptyDict == [k \in {} |-> TRUE]

Get(d, k, default) == IF k \in DOMAIN d THEN d[k] ELSE default

Truthy(d) == DOMAIN d # {}

StartsWith(s, prefix) ==
    Len(s) >= Len(prefix) /\ SubSeq(s, 1, Len(prefix)) = prefix

EndsWith(s, suffix) ==
    Len(s) >= Len(suffix) /\ SubSeq(s, Len(s) - Len(suffix) + 1, Len(s)) = suffix

Range(seq) == {seq[i] : i \in 1..Len(seq)}

\* seq[:n]
Take(seq, n) == SubSeq(seq, 1, IF Len(seq) < n THEN Len(seq) ELSE n)

RECURSIVE Flatten(_)
Flatten(seqs) ==
    IF seqs = <<>> THEN <<>> ELSE Head(seqs) \o Flatten(Tail(seqs))

-----------------------------------------------------------------------------
(* JSON values that are neither an object, a list nor text.  The model's   *)
(* objects are records and its lists are sequences; a number is the record *)
(* [jsnumber |-> n], a list of words that stands where an object is        *)
(* expected is [jsarray |-> items], and a field that should hold a list    *)
(* but holds a number is the one-element sequence <<[jsnotlist |-> n]>>.   *)
(* No object of the model has a key of these three names.                  *)

JsonNumber(n) == [jsnumber |-> n]

JsonArray(items) == [jsarray |-> items]

NotAList(n) == <<[jsnotlist |-> n]>>

\* isinstance(v, dict)
IsObject(v) == DOMAIN v \cap {"jsnumber", "jsarray", "jsnotlist"} = {}

IsArray(v) == "jsarray" \in DOMAIN v

\* iterating v raises TypeError ('int' object is not iterable)
NotIterable(v) == Len(v) = 1 /\ "jsnotlist" \in DOMAIN v[1]

-----------------------------------------------------------------------------
(* Text fragments.  Each stands for a piece of file text:                  *)
(*   NR   import { useRouter } from 'next/router';                         *)
(*   NN   import { useRouter } from 'next/navigation';                     *)
(*   DR   import Router from 'next/router';                                *)
(*   TM   the two-line "// TODO(next-migrate): `import Router from         *)
(*        'next/router'` is legacy ..." block written by rule 2            *)
(*   LI   from 'next/legacy/image'        NI   from 'next/image'           *)
(*   EX   experimental                                                     *)
(*   TC   "// TODO(next-config): Check experimental flags against target   *)
(*        version " (the head of the line written by rule 4)               *)
(*   TCE  ". Confirm replacements/renames in docs.\n" (its tail)           *)
(*   RD   ReactDOM.render(                                                 *)
(*   TR   the "// TODO(react-migrate): ReactDOM.render is legacy. ..."     *)
(*        line written by rule 5                                           *)
(*   FOO  from 'lib/foo'                  BAR  from 'lib/bar'              *)
(*   V14  14.0.0                                                           *)
(*   SUR  a lone UTF-16 surrogate (\ud800), which JSON text can carry      *)
(*   X    any other text                                                   *)
(***************************************************************************)
Tok == {"NR", "NN", "DR", "TM", "LI", "NI", "EX", "TC", "TCE", "RD", "TR",
        "FOO", "BAR", "V14", "SUR", "X"}

\* PATTERN.search(content) / `marker in content`
Search(content, matching) == \E i \in 1..Len(content) : content[i] \in matching

\* PATTERN.sub(replacement, content): every match is replaced
Sub(content, matching, replacement) ==
    Flatten([i \in 1..Len(content) |->
                IF content[i] \in matching THEN replacement ELSE <<content[i]>>])

CODE_EXT == <<".js", ".jsx", ".ts", ".tsx", ".mjs", ".cjs", ".cts", ".mts">>

NextConfigPattern(path) ==
    EndsWith(path, "next.config.js") \/ EndsWith(path, "next.config.mjs")

_is_code_file(path) ==
    (\E i \in 1..Len(CODE_EXT) : EndsWith(path, CODE_EXT[i]))
        \/ NextConfigPattern(path)

_file_list(r) ==
    LET files == Get(r, "files", <<>>)
    IN  SelectSeq(files, LAMBDA f : /\ IsObject(f)
                                    /\ "path" \in DOMAIN f
                                    /\ "content" \in DOMAIN f)

\* s.encode("utf-8", errors="ignore"): a lone surrogate cannot be encoded
\* and is dropped
EncodeIgnore(s) == SelectSeq(s, LAMBDA t : t # "SUR")

\* sha256(...).hexdigest()[:10]; the digest itself is taken to be free of
\* collisions on the texts of the model
_hash(s) == [sha10 |-> EncodeIgnore(s)]

\* `for f in repo.get("files") or []` raises TypeError
FileListRaises(r) == NotIterable(Get(r, "files", <<>>))

_unified_diff(old_text, new_text, path) ==
    [fromfile |-> "a/" \o path, tofile |-> "b/" \o path,
     old |-> old_text, new |-> new_text]

-----------------------------------------------------------------------------
(* Built-in rules *)

\* (new_content, changes, notes); raised says that the call did not return
\* but ended with an exception
Result(content, changes, notes) ==
    [content |-> content, changes |-> changes, notes |-> notes, raised |-> FALSE]

\* a note string: fixed text, then the text interpolated into it (if any)
Note(text, arg) == [text |-> text, arg |-> arg]

NamedImportMatch == {"NR"}
DefaultImportMatch == {"DR", "TM"}
LegacyImageMatch == {"LI"}
RenderMatch == {"RD"}
MigrateMarker == {"TM"}
ExperimentalWord == {"EX", "TC"}
ConfigMarker == {"TC"}
ReactMarker == {"TR"}

\* the rule made to wait for a routing topic in the guidance map
NextRouterNamedToNavigation_applicable_on_hint(path, content, context) ==
    /\ StartsWith(context.package_name, "next")
    /\ Search(content, NamedImportMatch)
    /\ "routing" \in DOMAIN context.hints

NextRouterNamedToNavigation_applicable(path, content, context) ==
    StartsWith(context.package_name, "next") /\ Search(content, NamedImportMatch)

\* the rule counting one change for each import it rewrites
NextRouterNamedToNavigation_transform_per_match(path, content, context) ==
    LET new == Sub(content, NamedImportMatch, <<"NN">>)
        cnt == Cardinality({i \in 1..Len(content) : content[i] \in NamedImportMatch})
    IN  Result(new, cnt,
               IF cnt > 0 THEN <<Note("Switched useRouter import to next/navigation (App Router).", <<>>)>>
                          ELSE <<>>)

NextRouterNamedToNavigation_transform(path, content, context) ==
    LET new == Sub(content, NamedImportMatch, <<"NN">>)
        cnt == IF new # content THEN 1 ELSE 0
    IN  Result(new, cnt,
               IF cnt = 1 THEN <<Note("Switched useRouter import to next/navigation (App Router).", <<>>)>>
                          ELSE <<>>)

NextRouterDefaultToNavigationWarning_applicable(path, content, context) ==
    StartsWith(context.package_name, "next") /\ Search(content, DefaultImportMatch)

NextRouterDefaultToNavigationWarning_transform(path, content, context) ==
    IF Search(content, MigrateMarker)
    THEN Result(content, 0, <<>>)
    ELSE Result(<<"TM">> \o content, 1,
                <<Note("Annotated legacy default Router import; manual refactor recommended.", <<>>)>>)

NextLegacyImageToImage_applicable(path, content, context) ==
    StartsWith(context.package_name, "next") /\ Search(content, LegacyImageMatch)

NextLegacyImageToImage_transform(path, content, context) ==
    LET new == Sub(content, LegacyImageMatch, <<"NI">>)
        cnt == IF new # content THEN 1 ELSE 0
    IN  Result(new, cnt,
               IF cnt = 1 THEN <<Note("Replaced next/legacy/image with next/image.", <<>>)>>
                          ELSE <<>>)

NextConfigExperimentalNote_applicable(path, content, context) ==
    StartsWith(context.package_name, "next") /\ NextConfigPattern(path)

\* the inserted line interpolates context['target_version'] as it is
NextConfigExperimentalNote_transform(path, content, context) ==
    IF Search(content, ExperimentalWord) /\ ~Search(content, ConfigMarker)
    THEN Result(<<"TC">> \o context.target_version \o <<"TCE">> \o content, 1,
                <<Note("Annotated experimental flags for Next ", context.target_version)>>)
    ELSE Result(content, 0, <<>>)

\* the rule without its package check
ReactCreateRootNote_applicable_any_package(path, content, context) ==
    Search(content, RenderMatch)

ReactCreateRootNote_applicable(path, content, context) ==
    StartsWith(context.package_name, "react") /\ Search(content, RenderMatch)

ReactCreateRootNote_transform(path, content, context) ==
    IF Search(content, ReactMarker)
    THEN Result(content, 0, <<>>)
    ELSE Result(<<"TR">> \o content, 1,
                <<Note("Annotated ReactDOM.render usage with createRoot guidance.", <<>>)>>)

_BUILTIN_RULES ==
    <<"next-router-named-import", "next-router-default-import-warning",
      "next-legacy-image", "next-config-experimental-note",
      "react-create-root-note">>

applicable(rule, path, content, context) ==
    CASE rule = "next-router-named-import" ->
            NextRouterNamedToNavigation_applicable(path, content, context)
      [] rule = "next-router-default-import-warning" ->
            NextRouterDefaultToNavigationWarning_applicable(path, content, context)
      [] rule = "next-legacy-image" ->
            NextLegacyImageToImage_applicable(path, content, context)
      [] rule = "next-config-experimental-note" ->
            NextConfigExperimentalNote_applicable(path, content, context)
      [] rule = "react-create-root-note" ->
            ReactCreateRootNote_applicable(path, content, context)

transform(rule, path, content, context) ==
    CASE rule = "next-router-named-import" ->
            NextRouterNamedToNavigation_transform(path, content, context)
      [] rule = "next-router-default-import-warning" ->
            NextRouterDefaultToNavigationWarning_transform(path, content, context)
      [] rule = "next-legacy-image" ->
            NextLegacyImageToImage_transform(path, content, context)
      [] rule = "next-config-experimental-note" ->
            NextConfigExperimentalNote_transform(path, content, context)
      [] rule = "react-create-root-note" ->
            ReactCreateRootNote_transform(path, content, context)

-----------------------------------------------------------------------------
(* Rule engine.  Every operation takes the session state s, a record with  *)
(* one field per variable, and returns the state after it.                 *)

\* the selector without the artifact's hints
_should_consider_file_nohints(path, arts) == _is_code_file(path)

_should_consider_file(path, arts) ==
    LET pri == Get(arts, "prioritized_files", EmptyDict)
        risky == Range(Get(pri, "risky_first", <<>>))
        all_pkg == Range(Get(pri, "all_package_files", <<>>))
    IN  IF risky # {} \/ all_pkg # {}
        THEN path \in risky \/ path \in all_pkg
        ELSE _is_code_file(path)

_context(s) ==
    [package_name |-> s.package_name,
     current_version |-> s.current_version,
     target_version |-> s.target_version,
     hints |-> s.last_guidance]

RECURSIVE BuiltinFold(_, _, _, _)
BuiltinFold(i, path, acc, ctx) ==
    IF i > Len(_BUILTIN_RULES) THEN acc
    ELSE IF applicable(_BUILTIN_RULES[i], path, acc.content, ctx)
         THEN LET r == transform(_BUILTIN_RULES[i], path, acc.content, ctx)
              IN  BuiltinFold(i + 1, path,
                              Result(r.content, acc.changes + r.changes,
                                     acc.notes \o r.notes), ctx)
         ELSE BuiltinFold(i + 1, path, acc, ctx)

\* the text \1 in a replacement: a reference to group 1, which no pattern
\* of the model has
BackRef == "\\1"

\* a custom rule whose failure ends the pipeline
CustomStep_abort(cr, acc) ==
    IF ~IsObject(cr) THEN [acc EXCEPT !.raised = TRUE]
    ELSE IF ~cr.pattern.compiles \/ BackRef \in Range(cr.replacement)
    THEN [acc EXCEPT !.raised = TRUE]
    ELSE LET new == Sub(acc.content, cr.pattern.matches, cr.replacement)
         IN  IF new # acc.content
             THEN Result(new, acc.changes + 1,
                         Append(acc.notes, Note("Custom rule applied: " \o cr.name, <<>>)))
             ELSE Result(new, acc.changes, acc.notes)

\* a custom rule whose substitutions are not counted
CustomStep_uncounted(cr, acc) ==
    IF ~IsObject(cr) THEN [acc EXCEPT !.raised = TRUE]
    ELSE IF ~cr.pattern.compiles \/ BackRef \in Range(cr.replacement)
    THEN Result(acc.content, acc.changes,
                Append(acc.notes, Note("Custom rule error (" \o cr.name \o ")", <<>>)))
    ELSE Result(Sub(acc.content, cr.pattern.matches, cr.replacement),
                acc.changes, acc.notes)

\* one custom rule: re.compile(cr["pattern"], re.MULTILINE), then pat.sub;
\* an exception of either is caught and leaves one error note.  A rule that
\* is a list makes cr["pattern"] raise, and then cr.get inside the handler
\* raises again, which nothing catches.
CustomStep(cr, acc) ==
    IF ~IsObject(cr)
    THEN [acc EXCEPT !.raised = TRUE]
    ELSE IF ~cr.pattern.compiles \/ BackRef \in Range(cr.replacement)
    THEN Result(acc.content, acc.changes,
                Append(acc.notes, Note("Custom rule error (" \o cr.name \o ")", <<>>)))
    ELSE LET new == Sub(acc.content, cr.pattern.matches, cr.replacement)
         IN  IF new # acc.content
             THEN Result(new, acc.changes + 1,
                         Append(acc.notes, Note("Custom rule applied: " \o cr.name, <<>>)))
             ELSE Result(new, acc.changes, acc.notes)

RECURSIVE CustomFold(_, _, _)
CustomFold(i, rules, acc) ==
    IF i > Len(rules) \/ acc.raised THEN acc
    ELSE CustomFold(i + 1, rules, CustomStep(rules[i], acc))

\* the pipeline with the custom rules ahead of the built-in ones
_apply_rules_custom_first(s, path, content) ==
    BuiltinFold(1, path, CustomFold(1, s.custom_rules, Result(content, 0, <<>>)),
                _context(s))

_apply_rules_to_file(s, path, content) ==
    CustomFold(1, s.custom_rules,
               BuiltinFold(1, path, Result(content, 0, <<>>), _context(s)))

-----------------------------------------------------------------------------
(* Objects.  A snapshot dict lives in the heap under an object id;         *)
(* _STATE["repo"] and _STATE["modified_repo"] hold ids, so that two names  *)
(* of one object and two equal objects are told apart.                     *)

NoneRef == 0
Ids == {1, 2}

Fresh(live) == CHOOSE i \in Ids \ live : \A j \in Ids \ live : i <= j

\* no copy: the same object under a second name
deepcopy_alias(h, src, live) == [heap |-> h, ref |-> src]

\* copy.deepcopy(obj): a new object with the same value
deepcopy(h, src, live) ==
    LET n == Fresh(live) IN [heap |-> [h EXCEPT ![n] = h[src]], ref |-> n]

\* an object no name refers to any more is gone
Collect(s) ==
    [s EXCEPT !.heap = [i \in Ids |->
        IF i \in {s.repo, s.modified_repo} THEN s.heap[i] ELSE EmptyDict]]

\* wrote is the file the operation wrote: none, or [path, text]
Ret(op, status, message, data) ==
    [op |-> op, status |-> status, message |-> message, data |-> data,
     wrote |-> EmptyDict]

\* the operation did not return: an exception left it
Raised(op, message) == Ret(op, "raised", message, EmptyDict)

Returns(s, r) == [s EXCEPT !.ret = r]

Repo(s) == s.heap[s.repo]

ModifiedRepo(s) == s.heap[s.modified_repo]

-----------------------------------------------------------------------------
(* Guidance compaction *)

\* the keyword vocabulary, in the order sorted() gives it
KeywordsSorted ==
    <<"app router", "config", "deprecated", "env", "migration", "rename",
      "replace", "router", "server actions", "useRouter">>

Contains(text, kw) ==
    \E i \in 1..(Len(text) - Len(kw) + 1) : SubSeq(text, i, i + Len(kw) - 1) = kw

\* list(dict.fromkeys(urls)): first occurrences, in order
RECURSIVE Dedupe(_)
Dedupe(seq) ==
    IF seq = <<>> THEN <<>>
    ELSE LET front == Dedupe(SubSeq(seq, 1, Len(seq) - 1))
             last == seq[Len(seq)]
         IN  IF last \in Range(front) THEN front ELSE Append(front, last)

\* str.lower() for the texts of the model
Lower(text) ==
    CASE text = "Replace useRouter" -> "replace userouter"
      [] text = "useRouter" -> "userouter"
      [] text = "Deprecated config" -> "deprecated config"
      [] OTHER -> text

\* one guidance entry
CompactEntry(g) ==
    LET refs == Get(g, "references", <<>>)
        urls == SelectSeq([i \in 1..Len(refs) |-> Get(refs[i], "url", "")],
                          LAMBDA u : u # "")
        found(kw) == \E i \in 1..Len(refs) : Contains(Lower(Get(refs[i], "snippet", "")), kw)
    IN  [urls |-> Dedupe(urls),
         hints |-> SelectSeq(KeywordsSorted, found)]

RECURSIVE CompactFold(_, _, _)
CompactFold(i, entries, topics) ==
    IF i > Len(entries) THEN topics
    ELSE LET topic == Get(entries[i], "topic", "misc")
             rest == [t \in DOMAIN topics \ {topic} |-> topics[t]]
         IN  CompactFold(i + 1, entries,
                         [t \in DOMAIN topics \cup {topic} |->
                             IF t = topic THEN CompactEntry(entries[i]) ELSE rest[t]])

\* g.get on an entry that is not an object raises AttributeError
CompactRaises(arts) ==
    LET entries == Get(arts, "rag_guidance", <<>>)
    IN  \E i \in 1..Len(entries) : ~IsObject(entries[i])

_compact_guidance_from_artifacts(arts) ==
    CompactFold(1, Get(arts, "rag_guidance", <<>>), EmptyDict)

\* a harvest that writes the supplemental topic whatever the retrieval
\* returned
_harvest_guidance_unchecked(s, rag) ==
    LET compact == _compact_guidance_from_artifacts(s.artifacts)
        withExtra == [t \in DOMAIN compact \cup {"supplemental"} |->
                        IF t = "supplemental"
                        THEN [urls |-> Dedupe(rag),
                              hints |-> <<"migration", "api", "rename">>]
                        ELSE compact[t]]
    IN  [s EXCEPT !.last_guidance =
            IF s.package_name # "" /\ s.target_version # <<>>
            THEN withExtra ELSE compact]

\* rag is what the live retrieval query returned: the urls of its matches,
\* empty when it found nothing or failed
_harvest_guidance(s, rag) ==
    LET compact == _compact_guidance_from_artifacts(s.artifacts)
        withExtra == [t \in DOMAIN compact \cup {"supplemental"} |->
                        IF t = "supplemental"
                        THEN [urls |-> Dedupe(rag),
                              hints |-> <<"migration", "api", "rename">>]
                        ELSE compact[t]]
    IN  [s EXCEPT !.last_guidance =
            IF s.package_name # "" /\ s.target_version # <<>> /\ rag # <<>>
            THEN withExtra ELSE compact]

-----------------------------------------------------------------------------
(* Tools.  A JSON argument is given by its parse: p.parses says whether    *)
(* json.loads accepts the text, p.isdict whether the value is an object,   *)
(* p.value is the object.                                                  *)

load_repo_json(s, p) ==
    IF ~p.parses
    THEN Returns(s, Ret("load_repo_json", "error", "json decode error", EmptyDict))
    ELSE IF ~p.isdict \/ "files" \notin DOMAIN p.value
    THEN Returns(s, Ret("load_repo_json", "error", "repo JSON must include 'files'", EmptyDict))
    ELSE LET n == Fresh({s.modified_repo})
             s1 == [s EXCEPT !.heap = [s.heap EXCEPT ![n] = p.value],
                             !.repo = n,
                             !.repo_label = Get(p.value, "label", "")]
         IN  IF FileListRaises(p.value)
             THEN \* len(_file_list(repo)) raises after the two assignments;
                  \* the handler turns the exception into an error payload
                  Returns(Collect(s1),
                          Ret("load_repo_json", "error",
                              "'int' object is not iterable", EmptyDict))
             ELSE Returns(Collect(s1),
                          Ret("load_repo_json", "ok", "",
                              [files |-> Len(_file_list(p.value)),
                               label |-> s1.repo_label]))

load_parser_artifacts(s, p, rag) ==
    IF ~p.parses
    THEN Returns(s, Ret("load_parser_artifacts", "error", "json decode error", EmptyDict))
    ELSE IF ~p.isdict
    THEN Returns(s, Ret("load_parser_artifacts", "error", "artifacts JSON must be an object", EmptyDict))
    ELSE LET s1 == [s EXCEPT !.artifacts = p.value,
                             !.package_name = Get(p.value, "package", ""),
                             !.current_version = Get(p.value, "current_version", ""),
                             !.target_version = Get(p.value, "target_version", <<>>)]
             s2 == _harvest_guidance(s1, rag)
         IN  IF CompactRaises(p.value)
             THEN \* _harvest_guidance raises after the four assignments and
                  \* before its own; the handler reports the exception
                  Returns(s1, Ret("load_parser_artifacts", "error",
                                  "'int' object has no attribute 'get'", EmptyDict))
             ELSE Returns(s2,
                     Ret("load_parser_artifacts", "ok", "",
                         [package |-> s2.package_name,
                          current_version |-> s2.current_version,
                          target_version |-> s2.target_version,
                          topics |-> DOMAIN s2.last_guidance]))

\* str(flag_str).strip().lower() for the flag texts of the model
StripLower(flag_str) ==
    CASE flag_str = " True " -> "true"
      [] flag_str = "FALSE" -> "false"
      [] OTHER -> flag_str

set_dry_run(s, flag_str) ==
    LET flag == StripLower(flag_str) \in {"1", "true", "yes", "y", "on"}
    IN  Returns([s EXCEPT !.dry_run = flag],
                Ret("set_dry_run", "ok", "", [dry_run |-> flag]))

\* `k in r`: a key of an object, an element of a list
In(k, r) == IF IsArray(r) THEN k \in Range(r.jsarray) ELSE k \in DOMAIN r

add_custom_rule(s, p) ==
    IF ~p.parses
    THEN Returns(s, Ret("add_custom_rule", "error", "json decode error", EmptyDict))
    ELSE IF "jsnumber" \in DOMAIN p.value
    THEN \* `k in 5` raises TypeError, which the handler reports
         Returns(s, Ret("add_custom_rule", "error",
                        "argument of type 'int' is not iterable", EmptyDict))
    ELSE IF ~(\A k \in {"name", "pattern", "replacement"} : In(k, p.value))
    THEN Returns(s, Ret("add_custom_rule", "error",
                        "rule must have name, pattern, replacement", EmptyDict))
    ELSE LET s1 == [s EXCEPT !.custom_rules = Append(s.custom_rules, p.value)]
         IN  Returns(s1, Ret("add_custom_rule", "ok", "",
                             [custom_rules |-> Len(s1.custom_rules)]))

\* a selector that looks at the dry-run flag: nothing is selected once
\* mutation is unlocked
Considered_when_dry(s) ==
    IF s.dry_run
    THEN SelectSeq(_file_list(Repo(s)),
                   LAMBDA f : _should_consider_file(f.path, s.artifacts)
                                 /\ _is_code_file(f.path))
    ELSE <<>>

\* the files both suggest_changes and generate_diffs go through
Considered(s) ==
    SelectSeq(_file_list(Repo(s)),
              LAMBDA f : _should_consider_file(f.path, s.artifacts)
                            /\ _is_code_file(f.path))

suggest_changes(s) ==
    IF ~Truthy(Repo(s))
    THEN Returns(s, Ret("suggest_changes", "error", "load_repo_json first", EmptyDict))
    ELSE IF ~Truthy(s.artifacts)
    THEN Returns(s, Ret("suggest_changes", "error", "load_parser_artifacts first", EmptyDict))
    ELSE IF FileListRaises(Repo(s))
    THEN Returns(s, Raised("suggest_changes", "TypeError: 'int' object is not iterable"))
    ELSE IF \E i \in 1..Len(s.custom_rules) : ~IsObject(s.custom_rules[i])
    THEN \* r["name"] on a list
         Returns(s, Raised("suggest_changes", "TypeError: list indices must be integers"))
    ELSE LET consider == [i \in 1..Len(Considered(s)) |-> Considered(s)[i].path]
         IN  Returns(s, Ret("suggest_changes", "ok", "",
                 [considering_files |-> Take(consider, 2000),
                  rules |-> _BUILTIN_RULES
                              \o [i \in 1..Len(s.custom_rules) |->
                                     "custom:" \o s.custom_rules[i].name],
                  guidance_hints |-> s.last_guidance,
                  dry_run |-> s.dry_run]))

DiffEntry(s, f) ==
    LET before == f.content
        r == _apply_rules_to_file(s, f.path, before)
    IN  IF r.changes > 0 /\ r.content # before
        THEN <<[file |-> f.path,
                before_hash |-> _hash(before),
                after_hash |-> _hash(r.content),
                changes |-> r.changes,
                notes |-> r.notes,
                patch |-> _unified_diff(before, r.content, f.path)]>>
        ELSE <<>>

\* generate_diffs that adds to the cached batch instead of replacing it
generate_diffs_accumulating(s) ==
    IF ~Truthy(Repo(s))
    THEN Returns(s, Ret("generate_diffs", "error", "load_repo_json first", EmptyDict))
    ELSE IF ~Truthy(s.artifacts)
    THEN Returns(s, Ret("generate_diffs", "error", "load_parser_artifacts first", EmptyDict))
    ELSE IF FileListRaises(Repo(s))
    THEN Returns(s, Raised("generate_diffs", "TypeError: 'int' object is not iterable"))
    ELSE IF \E i \in 1..Len(Considered(s)) :
                _apply_rules_to_file(s, Considered(s)[i].path, Considered(s)[i].content).raised
    THEN Returns(s, Raised("generate_diffs", "AttributeError: 'list' object has no attribute 'get'"))
    ELSE LET files == Considered(s)
             diffs == Flatten([i \in 1..Len(files) |-> DiffEntry(s, files[i])])
         IN  Returns([s EXCEPT !.last_diffs = s.last_diffs \o diffs],
                     Ret("generate_diffs", "ok", "",
                         [diff_count |-> Len(diffs),
                          files_changed |-> [i \in 1..Len(diffs) |-> diffs[i].file],
                          preview |-> Take(diffs, 5)]))

generate_diffs(s) ==
    IF ~Truthy(Repo(s))
    THEN Returns(s, Ret("generate_diffs", "error", "load_repo_json first", EmptyDict))
    ELSE IF ~Truthy(s.artifacts)
    THEN Returns(s, Ret("generate_diffs", "error", "load_parser_artifacts first", EmptyDict))
    ELSE IF FileListRaises(Repo(s))
    THEN Returns(s, Raised("generate_diffs", "TypeError: 'int' object is not iterable"))
    ELSE IF \E i \in 1..Len(Considered(s)) :
                _apply_rules_to_file(s, Considered(s)[i].path, Considered(s)[i].content).raised
    THEN Returns(s, Raised("generate_diffs", "AttributeError: 'list' object has no attribute 'get'"))
    ELSE LET files == Considered(s)
             diffs == Flatten([i \in 1..Len(files) |-> DiffEntry(s, files[i])])
         IN  Returns([s EXCEPT !.last_diffs = diffs],
                     Ret("generate_diffs", "ok", "",
                         [diff_count |-> Len(diffs),
                          files_changed |-> [i \in 1..Len(diffs) |-> diffs[i].file],
                          preview |-> Take(diffs, 5)]))

\* idx = {f["path"]: i for i, f in enumerate(_file_list(new_repo))}: the
\* position of the path in the FILTERED list (the last one, if it occurs
\* more than once), or 0 for idx.get(path) is None
IdxGet(flist, path) ==
    LET hits == {i \in 1..Len(flist) : flist[i].path = path}
    IN  IF hits = {} THEN 0 ELSE CHOOSE i \in hits : \A j \in hits : j <= i

\* the loop of apply_diffs over the cached batch, from entry k on; files is
\* new_repo["files"], the UNFILTERED list, which the loop indexes with the
\* positions of the filtered one
RECURSIVE ApplyLoop(_, _, _, _, _)
ApplyLoop(s, idx, files, k, applied) ==
    IF k > Len(s.last_diffs)
    THEN [files |-> files, applied |-> applied, raised |-> FALSE, error |-> ""]
    ELSE LET path == s.last_diffs[k].file
             i == idx[k]
         IN  IF i = 0
             THEN ApplyLoop(s, idx, files, k + 1, applied)
             ELSE IF "content" \notin DOMAIN files[i]
             THEN [files |-> files, applied |-> applied, raised |-> TRUE,
                   error |-> "KeyError: 'content'"]
             ELSE LET before == files[i].content
                      r == _apply_rules_to_file(s, path, before)
                  IN  IF r.raised
                      THEN [files |-> files, applied |-> applied, raised |-> TRUE,
                            error |-> "AttributeError: 'list' object has no attribute 'get'"]
                      ELSE IF r.content # before
                      THEN ApplyLoop(s, idx,
                                     [files EXCEPT ![i] =
                                        [key \in DOMAIN files[i] |->
                                            IF key = "content" THEN r.content
                                            ELSE files[i][key]]],
                                     k + 1, Append(applied, path))
                      ELSE ApplyLoop(s, idx, files, k + 1, applied)

DryRunError ==
    Ret("apply_diffs", "error", "dry_run is true; set_dry_run false to apply", EmptyDict)

NoDiffsError ==
    Ret("apply_diffs", "error", "no diffs; run generate_diffs first", EmptyDict)

\* apply_diffs past its two precondition checks
ApplyBody(s) ==
    LET cp == deepcopy(s.heap, s.repo, {s.repo})
        new_repo == cp.heap[cp.ref]
        flist == _file_list(new_repo)
        idx == [k \in 1..Len(s.last_diffs) |-> IdxGet(flist, s.last_diffs[k].file)]
        out == ApplyLoop(s, idx, Get(new_repo, "files", <<>>), 1, <<>>)
        written == [key \in DOMAIN new_repo |->
                       IF key = "files" THEN out.files ELSE new_repo[key]]
        h == [cp.heap EXCEPT ![cp.ref] = written]
    IN  IF FileListRaises(new_repo)
        THEN Returns(s, Raised("apply_diffs", "TypeError: 'int' object is not iterable"))
        ELSE IF out.raised
        THEN \* no handler in apply_diffs, the call raises; new_repo is
             \* dropped unless it is another name of a live object
             Returns([s EXCEPT !.heap = IF cp.ref \in {s.repo, s.modified_repo}
                                        THEN h ELSE s.heap],
                     Raised("apply_diffs", out.error))
        ELSE Returns(Collect([s EXCEPT !.heap = h, !.modified_repo = cp.ref]),
                     Ret("apply_diffs", "ok", "",
                         [applied_files |-> out.applied,
                          count |-> Len(out.applied)]))

\* apply_diffs without the dry-run check
apply_diffs_ungated(s) ==
    IF s.last_diffs = <<>> THEN Returns(s, NoDiffsError) ELSE ApplyBody(s)

\* apply_diffs with its two checks in the other order
apply_diffs_swapped(s) ==
    IF s.last_diffs = <<>> THEN Returns(s, NoDiffsError)
    ELSE IF s.dry_run THEN Returns(s, DryRunError)
    ELSE ApplyBody(s)

apply_diffs(s) ==
    IF s.dry_run THEN Returns(s, DryRunError)
    ELSE IF s.last_diffs = <<>> THEN Returns(s, NoDiffsError)
    ELSE ApplyBody(s)

\* path_str.strip() or "./codemod_repo.json"
ExportPath(path_str) ==
    CASE path_str = "" -> "./codemod_repo.json"
      [] path_str = " out.json " -> "out.json"
      [] OTHER -> path_str

\* the original snapshot, whether or not a modified one exists
ExportSource_original(s) == Repo(s)

\* the snapshot export_repo_json serializes: modified_repo or repo
ExportSource(s) ==
    IF s.modified_repo # NoneRef /\ Truthy(ModifiedRepo(s))
    THEN ModifiedRepo(s) ELSE Repo(s)

\* json.dumps(value, indent=2): the text that json.loads reads back as value
JsonDumps(value) == [json |-> value]

\* out.write_text(...) comes before len(_file_list(repo)), whose exception
\* the handler reports
export_repo_json(s, path_str) ==
    IF ~Truthy(ExportSource(s))
    THEN Returns(s, Ret("export_repo_json", "error", "no repo loaded", EmptyDict))
    ELSE LET file == [path |-> ExportPath(path_str),
                      text |-> JsonDumps(ExportSource(s))]
         IN  IF FileListRaises(ExportSource(s))
             THEN Returns(s, [Ret("export_repo_json", "error",
                                  "'int' object is not iterable", EmptyDict)
                                EXCEPT !.wrote = file])
             ELSE Returns(s, [Ret("export_repo_json", "ok", "",
                                  [written |-> ExportPath(path_str),
                                   files |-> Len(_file_list(ExportSource(s)))])
                                EXCEPT !.wrote = file])

\* load -> artifacts -> set_dry_run -> suggest -> generate -> (maybe apply);
\* no step's status is looked at, and the payload of generate_diffs is
\* what is returned; an exception of a step ends the call there
full_codemod(s, repo_p, artifacts_p, rag, dry_run_str) ==
    LET s3 == set_dry_run(load_parser_artifacts(load_repo_json(s, repo_p),
                                                artifacts_p, rag),
                          dry_run_str)
        Ends(r) == [r.ret EXCEPT !.op = "full_codemod"]
        \* the rest of the call once generate_diffs has returned
        Last(s5) ==
            LET s6 == IF ~s5.dry_run THEN apply_diffs(s5) ELSE s5
            IN  IF s6.ret.status = "raised"
                THEN Returns(s6, Ends(s6)) ELSE Returns(s6, Ends(s5))
        \* the rest of the call once suggest_changes has returned
        Rest(s4) ==
            IF s4.ret.status = "raised" THEN {Returns(s4, Ends(s4))}
            ELSE {IF s5.ret.status = "raised" THEN Returns(s5, Ends(s5)) ELSE Last(s5) :
                    s5 \in {generate_diffs(s4)}}
    IN  CHOOSE out \in UNION {Rest(s4) : s4 \in {suggest_changes(v) : v \in {s3}}} : TRUE

-----------------------------------------------------------------------------
(* The session as a state machine *)

St ==
    [heap |-> heap, repo |-> repo, repo_label |-> repo_label,
     artifacts |-> artifacts, dry_run |-> dry_run,
     package_name |-> package_name, current_version |-> current_version,
     target_version |-> target_version, last_guidance |-> last_guidance,
     custom_rules |-> custom_rules, last_diffs |-> last_diffs,
     modified_repo |-> modified_repo, ret |-> ret]

Commit(after) ==
    \E s \in {after} :
    /\ heap' = s.heap
    /\ repo' = s.repo
    /\ repo_label' = s.repo_label
    /\ artifacts' = s.artifacts
    /\ dry_run' = s.dry_run
    /\ package_name' = s.package_name
    /\ current_version' = s.current_version
    /\ target_version' = s.target_version
    /\ last_guidance' = s.last_guidance
    /\ custom_rules' = s.custom_rules
    /\ last_diffs' = s.last_diffs
    /\ modified_repo' = s.modified_repo
    /\ ret' = s.ret
    /\ UNCHANGED <<probe, crawler>>

\* the state of _STATE at import time, nothing called yet
InitState ==
    [heap |-> [i \in Ids |-> EmptyDict], repo |-> 1, repo_label |-> "",
     artifacts |-> EmptyDict, dry_run |-> TRUE,
     package_name |-> "", current_version |-> "", target_version |-> <<>>,
     last_guidance |-> EmptyDict, custom_rules |-> <<>>, last_diffs |-> <<>>,
     modified_repo |-> NoneRef,
     ret |-> Ret("", "", "", EmptyDict)]

NoProbe == [path |-> "", content |-> <<>>, changes |-> 0, notes |-> <<>>,
            before |-> <<>>, runs |-> 0]

\* no call of the crawler is running
NoCrawler == [call |-> "none"]

(* Inputs *)

Json(value) == [parses |-> TRUE, isdict |-> TRUE, value |-> value]
\* JSON text of a value that is not an object
JsonOther(value) == [parses |-> TRUE, isdict |-> FALSE, value |-> value]
Malformed == [parses |-> FALSE, isdict |-> FALSE, value |-> EmptyDict]

File(path, content) == [content |-> content, path |-> path]

\* a snapshot with two source files and one file that is not source
DemoRepo ==
    [files |-> <<File("src/a.js", <<"SUR", "FOO">>), File("src/b.js", <<"NR">>),
                 File("notes.md", <<"NR">>)>>]

\* an artifact that names the package and the version to migrate to
DemoArtifacts == [package |-> "next", target_version |-> <<"V14">>]

RepoValues ==
    { DemoRepo,
      [files |-> <<[content |-> <<"NR">>], File("src/a.js", <<"NR">>)>>],
      [files |-> <<[path |-> "src/b.js"], File("src/a.js", <<"NR">>)>>],
      [files |-> NotAList(5), label |-> "B"],
      [label |-> "demo"] }

ArtifactValues ==
    { EmptyDict,
      [package |-> "next", current_version |-> "13.0.0", target_version |-> <<"V14">>,
       prioritized_files |-> [risky_first |-> <<>>, all_package_files |-> <<>>],
       rag_guidance |->
           <<[references |-> <<[snippet |-> "Replace useRouter",
                                url |-> "https://nextjs.org/docs/app"]>>,
              topic |-> "routing"]>>],
      [package |-> "next",
       prioritized_files |-> [risky_first |-> <<"notes.md">>,
                              all_package_files |-> <<"notes.md", "src/a.js">>]],
      [package |-> "react", rag_guidance |-> <<JsonNumber(5)>>] }

RagResults == { <<>>, <<"https://nextjs.org/docs/upgrading">> }

Regex(matching) == [compiles |-> TRUE, matches |-> matching]

RuleValues ==
    { [name |-> "strip", pattern |-> Regex({"SUR"}), replacement |-> <<>>],
      [name |-> "r3", pattern |-> Regex({"FOO"})] }

\* payloads of add_custom_rule that are not objects: the list
\* ["name", "pattern", "replacement"] and the number 5
RuleOthers ==
    { JsonArray(<<"name", "pattern", "replacement">>), JsonNumber(5) }

FlagStrings == {"false", " True ", ""}

PathStrings == {"", " out.json "}

\* add_custom_rule has no limit of its own; the model stops at MaxRules
MaxRules == 1

(* Actions *)

LoadRepoJson ==
    \E p \in {Json(v) : v \in RepoValues} \cup {Malformed} :
        Commit(load_repo_json(St, p))

LoadParserArtifacts ==
    \E p \in {Json(v) : v \in ArtifactValues} \cup {Malformed}, rag \in RagResults :
        Commit(load_parser_artifacts(St, p, rag))

SetDryRun ==
    \E flag_str \in FlagStrings : Commit(set_dry_run(St, flag_str))

AddCustomRule ==
    /\ Len(custom_rules) < MaxRules
    /\ \E p \in {Json(v) : v \in RuleValues}
                 \cup {JsonOther(v) : v \in RuleOthers} \cup {Malformed} :
          Commit(add_custom_rule(St, p))

SuggestChanges == Commit(suggest_changes(St))

GenerateDiffs == Commit(generate_diffs(St))

ApplyDiffs == Commit(apply_diffs(St))

ExportRepoJson ==
    \E path_str \in PathStrings : Commit(export_repo_json(St, path_str))

FullCodemod ==
    \E p \in {Json(DemoRepo), Malformed}, dry_run_str \in {"false", ""} :
        Commit(full_codemod(St, p, Json(DemoArtifacts), <<>>, dry_run_str))

Init ==
    /\ heap = InitState.heap
    /\ repo = InitState.repo
    /\ repo_label = InitState.repo_label
    /\ artifacts = InitState.artifacts
    /\ dry_run = InitState.dry_run
    /\ package_name = InitState.package_name
    /\ current_version = InitState.current_version
    /\ target_version = InitState.target_version
    /\ last_guidance = InitState.last_guidance
    /\ custom_rules = InitState.custom_rules
    /\ last_diffs = InitState.last_diffs
    /\ modified_repo = InitState.modified_repo
    /\ ret = InitState.ret
    /\ probe = NoProbe
    /\ crawler = NoCrawler

Next ==
    \/ LoadRepoJson
    \/ LoadParserArtifacts
    \/ SetDryRun
    \/ AddCustomRule
    \/ SuggestChanges
    \/ GenerateDiffs
    \/ ApplyDiffs
    \/ ExportRepoJson
    \/ FullCodemod

Spec == Init /\ [][Next]_vars

-----------------------------------------------------------------------------
(* The transform pipeline as a function of its inputs: a session whose     *)
(* artifact set the package and the target version, no custom rule, and    *)
(* one file text that is put through _apply_rules_to_file again and again. *)

\* the longest file text, in fragments, that the runs start from
MaxContentLen == 2

\* the number of times the pipeline is run on its own output
MaxRuns == 2

Texts(n) == UNION {[1..k -> Tok] : k \in 0..n}

PackageNames == {"next", "react", "vue"}

\* target_version is any text the artifact holds: a version number, or
\* text that reads like source code
VersionTexts == {<<>>, <<"V14">>, <<"DR">>, <<"NR">>}

InitPipeline ==
    \E pkg \in PackageNames, tv \in VersionTexts,
       path \in {"src/a.js", "next.config.js"}, content \in Texts(MaxContentLen) :
        /\ heap = InitState.heap
        /\ repo = InitState.repo
        /\ repo_label = InitState.repo_label
        /\ artifacts = [package |-> pkg, target_version |-> tv]
        /\ dry_run = InitState.dry_run
        /\ package_name = pkg
        /\ current_version = ""
        /\ target_version = tv
        /\ last_guidance = EmptyDict
        /\ custom_rules = <<>>
        /\ last_diffs = <<>>
        /\ modified_repo = NoneRef
        /\ ret = Ret("load_parser_artifacts", "ok", "",
                     [package |-> pkg, current_version |-> "",
                      target_version |-> tv, topics |-> {}])
        /\ probe = [NoProbe EXCEPT !.path = path, !.content = content]
        /\ crawler = NoCrawler

RunPipeline ==
    /\ probe.runs < MaxRuns
    /\ \E r \in {_apply_rules_to_file(St, probe.path, probe.content)} :
          probe' = [path |-> probe.path, content |-> r.content,
                    changes |-> r.changes, notes |-> r.notes,
                    before |-> probe.content, runs |-> probe.runs + 1]
    /\ UNCHANGED <<heap, repo, repo_label, artifacts, dry_run, package_name,
                   current_version, target_version, last_guidance,
                   custom_rules, last_diffs, modified_repo, ret, crawler>>

NextPipeline == RunPipeline

SpecPipeline == InitPipeline /\ [][NextPipeline]_vars

-----------------------------------------------------------------------------
(* The rule engine with custom rules: a session after load_repo_json,      *)
(* load_parser_artifacts, some add_custom_rule calls and                   *)
(* set_dry_run("false"), in which generate_diffs and apply_diffs run and   *)
(* the pipeline is run on single files of the snapshot.                    *)

\* the longest list of custom rules registered
MaxRuleList == 2

NoRegex == [compiles |-> FALSE, matches |-> {}]

\* r1 and r2 undo each other, mk writes the import that the first built-in
\* rule rewrites, bad has the pattern "(", badrepl the replacement "\1",
\* grow writes its own match twice
PipelineRules ==
    { [name |-> "r1", pattern |-> Regex({"FOO"}), replacement |-> <<"BAR">>],
      [name |-> "grow", pattern |-> Regex({"FOO"}), replacement |-> <<"FOO", "FOO">>],
      [name |-> "r2", pattern |-> Regex({"BAR"}), replacement |-> <<"FOO">>],
      [name |-> "mk", pattern |-> Regex({"FOO"}), replacement |-> <<"NR">>],
      [name |-> "bad", pattern |-> NoRegex, replacement |-> <<"BAR">>],
      [name |-> "badrepl", pattern |-> Regex({"FOO"}), replacement |-> <<BackRef>>] }

RuleLists(n) == UNION {[1..k -> PipelineRules] : k \in 0..n}

PipelineTexts == { <<"FOO">>, <<"NR", "BAR">>, <<"EX", "DR">> }

\* the path of the snapshot's second file: a path of its own, or once more
\* the path of the first file
SecondPaths == {"next.config.js", "src/a.js"}

InitRules ==
    \E pkg \in {"next", "react"}, tv \in {<<>>, <<"NR">>},
       rules \in RuleLists(MaxRuleList), c1 \in PipelineTexts, c2 \in PipelineTexts,
       p2 \in SecondPaths :
        /\ heap = [InitState.heap EXCEPT
                     ![1] = [files |-> <<File("src/a.js", c1), File(p2, c2)>>]]
        /\ repo = 1
        /\ repo_label = ""
        /\ artifacts = [package |-> pkg, target_version |-> tv]
        /\ dry_run = FALSE
        /\ package_name = pkg
        /\ current_version = ""
        /\ target_version = tv
        /\ last_guidance = EmptyDict
        /\ custom_rules = rules
        /\ last_diffs = <<>>
        /\ modified_repo = NoneRef
        /\ ret = Ret("set_dry_run", "ok", "", [dry_run |-> FALSE])
        /\ probe = NoProbe
        /\ crawler = NoCrawler

\* _apply_rules_to_file on one file of the snapshot
RunRules ==
    /\ \E f \in Range(_file_list(heap[repo])) :
       \E r \in {_apply_rules_to_file(St, f.path, f.content)} :
          probe' = [path |-> f.path, content |-> r.content,
                    changes |-> r.changes, notes |-> r.notes,
                    before |-> f.content, runs |-> 1]
    /\ UNCHANGED <<heap, repo, repo_label, artifacts, dry_run, package_name,
                   current_version, target_version, last_guidance,
                   custom_rules, last_diffs, modified_repo, ret, crawler>>

\* _apply_rules_to_file on the content the run before returned
RerunRules ==
    /\ probe.runs = 1
    /\ \E r \in {_apply_rules_to_file(St, probe.path, probe.content)} :
          probe' = [path |-> probe.path, content |-> r.content,
                    changes |-> r.changes, notes |-> r.notes,
                    before |-> probe.content, runs |-> 2]
    /\ UNCHANGED <<heap, repo, repo_label, artifacts, dry_run, package_name,
                   current_version, target_version, last_guidance,
                   custom_rules, last_diffs, modified_repo, ret, crawler>>

NextRules ==
    \/ GenerateDiffs
    \/ ApplyDiffs
    \/ RunRules
    \/ RerunRules

SpecRules == InitRules /\ [][NextRules]_vars

-----------------------------------------------------------------------------
(* The guidance compaction as a function of the artifact's rag_guidance     *)
(* list: a session in which load_parser_artifacts is called with artifacts  *)
(* that differ in that list, and the live retrieval returns nothing.        *)

\* the longest list of guidance entries in an artifact
MaxEntries == 2

\* the longest list of references in a guidance entry
MaxRefs == 2

GuidanceRefs ==
    { [snippet |-> "Deprecated config", url |-> "https://nextjs.org/docs/app"],
      [snippet |-> "Replace useRouter", url |-> "https://nextjs.org/docs/pages"],
      [snippet |-> "", url |-> ""] }

GuidanceEntries ==
    { [references |-> refs, topic |-> topic] :
        refs \in UNION {[1..k -> GuidanceRefs] : k \in 0..MaxRefs},
        topic \in {"routing", "config"} }

GuidanceArtifacts ==
    { Json([package |-> "next", rag_guidance |-> entries]) :
        entries \in UNION {[1..k -> GuidanceEntries] : k \in 0..MaxEntries} }

LoadGuidance ==
    \E p \in GuidanceArtifacts : Commit(load_parser_artifacts(St, p, <<>>))

NextGuidance == LoadGuidance

SpecGuidance == Init /\ [][NextGuidance]_vars

-----------------------------------------------------------------------------
(* The documentation crawler (src/botdas/crawler_botda/agent.py).  While   *)
(* one of its calls runs, the codemod session stays as it was at import.   *)

SessionIdle ==
    UNCHANGED <<heap, repo, repo_label, artifacts, dry_run, package_name,
                current_version, target_version, last_guidance, custom_rules,
                last_diffs, modified_repo, ret, probe>>

SessionAtImport ==
    /\ heap = InitState.heap
    /\ repo = InitState.repo
    /\ repo_label = InitState.repo_label
    /\ artifacts = InitState.artifacts
    /\ dry_run = InitState.dry_run
    /\ package_name = InitState.package_name
    /\ current_version = InitState.current_version
    /\ target_version = InitState.target_version
    /\ last_guidance = InitState.last_guidance
    /\ custom_rules = InitState.custom_rules
    /\ last_diffs = InitState.last_diffs
    /\ modified_repo = InitState.modified_repo
    /\ ret = InitState.ret
    /\ probe = NoProbe

(* DocumentationParser.parse_page: the retry loop around one fetch.  pc is *)
(* the position in the loop, attempt the loop variable, fetches the number *)
(* of session.get calls made, waits the arguments of the time.sleep calls. *)

\* the largest max_retries of a CrawlerConfig in the model
MaxRetries == 5

\* the largest retry_delay of a CrawlerConfig in the model
MaxDelay == 2

RECURSIVE Pow2(_)
Pow2(k) == IF k = 0 THEN 1 ELSE 2 * Pow2(k - 1)

\* a delay that grows by retry_delay with each attempt
Backoff_linear(retry_delay, attempt) == retry_delay * (attempt + 1)

\* retry_delay * (2 ** attempt)
Backoff(retry_delay, attempt) == retry_delay * Pow2(attempt)

InitParsePage ==
    /\ SessionAtImport
    /\ \E m \in 0..MaxRetries, d \in 0..MaxDelay :
          crawler = [call |-> "parse_page", max_retries |-> m, retry_delay |-> d,
                     pc |-> "for", attempt |-> 0, fetches |-> 0, waits |-> <<>>,
                     result |-> "running"]

\* range(max_retries) is used up: the function ends without a return
\* statement, which returns None
LoopEnds ==
    /\ crawler.call = "parse_page"
    /\ crawler.pc = "for"
    /\ crawler.attempt >= crawler.max_retries
    /\ crawler' = [crawler EXCEPT !.pc = "returned", !.result = "None"]
    /\ SessionIdle

\* the fetch and the extraction go through: the page is returned
FetchSucceeds ==
    /\ crawler.call = "parse_page"
    /\ crawler.pc = "for"
    /\ crawler.attempt < crawler.max_retries
    /\ crawler' = [crawler EXCEPT !.fetches = @ + 1,
                                   !.pc = "returned", !.result = "page"]
    /\ SessionIdle

\* the fetch or the extraction raises: the handler goes to sleep, or
\* returns None after the last attempt
FetchFails ==
    /\ crawler.call = "parse_page"
    /\ crawler.pc = "for"
    /\ crawler.attempt < crawler.max_retries
    /\ crawler' = IF crawler.attempt < crawler.max_retries - 1
                   THEN [crawler EXCEPT !.fetches = @ + 1, !.pc = "sleep"]
                   ELSE [crawler EXCEPT !.fetches = @ + 1,
                                        !.pc = "returned", !.result = "None"]
    /\ SessionIdle

\* time.sleep(...) returns and the loop goes on with the next attempt
Sleep ==
    /\ crawler.call = "parse_page"
    /\ crawler.pc = "sleep"
    /\ crawler' = [crawler EXCEPT
                      !.waits = Append(@, Backoff(crawler.retry_delay, crawler.attempt)),
                      !.attempt = @ + 1,
                      !.pc = "for"]
    /\ SessionIdle

NextParsePage ==
    \/ LoopEnds
    \/ FetchSucceeds
    \/ FetchFails
    \/ Sleep

SpecParsePage == InitParsePage /\ [][NextParsePage]_vars

-----------------------------------------------------------------------------
(* DocumentationParser.scan_framework_docs past the robots.txt check and   *)
(* the discovery of the URLs: one parse_page task for each URL in a pool   *)
(* of max_workers threads, and the main thread that takes the futures as   *)
(* they complete.  task[u] is "queued", "running", or what the future of u *)
(* holds: "page" and "None" are the two values parse_page returns,         *)
(* "raised" is an exception, which f.result() raises again.                *)

\* the largest number of URLs the discovery gives
MaxUrls == 3

\* the largest max_workers of a CrawlerConfig in the model
MaxWorkers == 2

UrlNames == <<"https://nextjs.org/docs", "https://nextjs.org/docs/app",
              "https://nextjs.org/docs/pages", "https://nextjs.org/docs/api">>

Outcomes == {"page", "None", "raised"}

Page(u) == [url |-> u]

InitScan ==
    /\ SessionAtImport
    /\ \E n \in 1..MaxUrls, w \in 1..MaxWorkers :
          crawler = [call |-> "scan_framework_docs", max_workers |-> w,
                     all_urls |-> {UrlNames[i] : i \in 1..n},
                     task |-> [u \in {UrlNames[i] : i \in 1..n} |-> "queued"],
                     handled |-> {}, parsed |-> <<>>, failed |-> <<>>,
                     pc |-> "as_completed", result |-> EmptyDict]

Running(c) == {u \in c.all_urls : c.task[u] = "running"}

\* a free thread of the pool takes the next submitted call
WorkerStarts ==
    /\ crawler.call = "scan_framework_docs"
    /\ Cardinality(Running(crawler)) < crawler.max_workers
    /\ \E u \in crawler.all_urls :
          /\ crawler.task[u] = "queued"
          /\ crawler' = [crawler EXCEPT !.task[u] = "running"]
    /\ SessionIdle

\* a parse_page call ends and its future is set
TaskEnds ==
    /\ crawler.call = "scan_framework_docs"
    /\ \E u \in crawler.all_urls, o \in Outcomes :
          /\ crawler.task[u] = "running"
          /\ crawler' = [crawler EXCEPT !.task[u] = o]
    /\ SessionIdle

\* the loop body without the exception handler: a future that raises ends
\* the scan
Handle_no_except(c, u) ==
    IF c.task[u] = "raised"
    THEN [c EXCEPT !.pc = "raised"]
    ELSE [c EXCEPT !.handled = @ \cup {u},
                   !.parsed = IF c.task[u] = "page" THEN Append(@, Page(u)) ELSE @,
                   !.failed = IF c.task[u] = "None" THEN Append(@, u) ELSE @]

\* the body of the as_completed loop for the future of u
Handle(c, u) ==
    [c EXCEPT !.handled = @ \cup {u},
              !.parsed = IF c.task[u] = "page" THEN Append(@, Page(u)) ELSE @,
              !.failed = IF c.task[u] \in {"None", "raised"} THEN Append(@, u) ELSE @]

\* as_completed yields a future that is done and was not yielded before
MainHandles ==
    /\ crawler.call = "scan_framework_docs"
    /\ crawler.pc = "as_completed"
    /\ \E u \in crawler.all_urls \ crawler.handled :
          /\ crawler.task[u] \in Outcomes
          /\ crawler' = Handle(crawler, u)
    /\ SessionIdle

\* every future was yielded: the pool shuts down and the result is built
ScanReturns ==
    /\ crawler.call = "scan_framework_docs"
    /\ crawler.pc = "as_completed"
    /\ crawler.handled = crawler.all_urls
    /\ crawler' = [crawler EXCEPT
                      !.pc = "returned",
                      !.result = [total_urls |-> Cardinality(crawler.all_urls),
                                  successful_parses |-> Len(crawler.parsed),
                                  failed_parses |-> Len(crawler.failed),
                                  failed_urls |-> crawler.failed,
                                  pages |-> crawler.parsed]]
    /\ SessionIdle

NextScan ==
    \/ WorkerStarts
    \/ TaskEnds
    \/ MainHandles
    \/ ScanReturns

SpecScan == InitScan /\ [][NextScan]_vars

-----------------------------------------------------------------------------
(* upsert_records_integrated: the loop that writes the records in batches. *)
(* The records are numbered in input order; i is the loop variable,        *)
(* submitted the batches handed to index.upsert_records so far, each with  *)
(* whether the write went through.                                         *)

PINECONE_MAX_BATCH_SIZE == 96

\* the largest number of records of a call in the model
MaxRecords == 200

RecordCounts ==
    {0, 1, PINECONE_MAX_BATCH_SIZE, PINECONE_MAX_BATCH_SIZE + 1, MaxRecords}

\* the batch sizes requested: below, at and above the limit
BatchSizes ==
    {40, PINECONE_MAX_BATCH_SIZE, PINECONE_MAX_BATCH_SIZE + 1, 1000}

Min(a, b) == IF a <= b THEN a ELSE b

\* the batch size taken as requested
EffectiveBatchSize_uncapped(requested) == requested

\* batch_size = min(batch_size, PINECONE_MAX_BATCH_SIZE)
EffectiveBatchSize(requested) == Min(requested, PINECONE_MAX_BATCH_SIZE)

\* records[i:i+batch_size]
Slice(records, i, batch_size) ==
    SubSeq(records, i + 1, Min(i + batch_size, Len(records)))

InitUpsert ==
    /\ SessionAtImport
    /\ \E n \in RecordCounts, b \in BatchSizes :
          crawler = [call |-> "upsert_records_integrated",
                     records |-> [k \in 1..n |-> k],
                     requested |-> b,
                     batch_size |-> EffectiveBatchSize(b),
                     i |-> 0, submitted |-> <<>>, total |-> 0, failed_batches |-> 0,
                     pc |-> "for", result |-> EmptyDict]

\* index.upsert_records(namespace, batch) returns
BatchSucceeds ==
    /\ crawler.call = "upsert_records_integrated"
    /\ crawler.pc = "for"
    /\ crawler.i < Len(crawler.records)
    /\ \E batch \in {Slice(crawler.records, crawler.i, crawler.batch_size)} :
          crawler' = [crawler EXCEPT
                        !.submitted = Append(@, [batch |-> batch, ok |-> TRUE]),
                        !.total = @ + Len(batch),
                        !.i = @ + crawler.batch_size]
    /\ SessionIdle

\* index.upsert_records(namespace, batch) raises: the handler counts the
\* batch and the loop continues
BatchFails ==
    /\ crawler.call = "upsert_records_integrated"
    /\ crawler.pc = "for"
    /\ crawler.i < Len(crawler.records)
    /\ \E batch \in {Slice(crawler.records, crawler.i, crawler.batch_size)} :
          crawler' = [crawler EXCEPT
                        !.submitted = Append(@, [batch |-> batch, ok |-> FALSE]),
                        !.failed_batches = @ + 1,
                        !.i = @ + crawler.batch_size]
    /\ SessionIdle

\* range(0, len(records), batch_size) is used up
UpsertReturns ==
    /\ crawler.call = "upsert_records_integrated"
    /\ crawler.pc = "for"
    /\ crawler.i >= Len(crawler.records)
    /\ crawler' = [crawler EXCEPT
                      !.pc = "returned",
                      !.result = [upserted |-> crawler.total,
                                  total_records |-> Len(crawler.records),
                                  batch_size |-> crawler.batch_size,
                                  failed_batches |-> crawler.failed_batches]]
    /\ SessionIdle

NextUpsert ==
    \/ BatchSucceeds
    \/ BatchFails
    \/ UpsertReturns

SpecUpsert == InitUpsert /\ [][NextUpsert]_vars

-----------------------------------------------------------------------------
(* _size_chunk: the loop that cuts a page text into chunks.  A text is the *)
(* sequence of its characters; a character that strip() removes is 0 and   *)
(* the k-th other character is k, so that a slice tells where it was cut.   *)
(* pc is the position in the function, start the loop variable.            *)

CHUNK_MAX_CHARS == 1200

CHUNK_OVERLAP_CHARS == 150

\* the longest stripped text that is cut with the small parameters
MaxBody == 6

\* the largest max_chars besides the configured one
MaxChars == 4

\* the most white space in front of the text, and behind it
MaxPad == 1

\* text lengths around the chunk borders of the configured parameters
ConfiguredLengths ==
    { CHUNK_MAX_CHARS, CHUNK_MAX_CHARS + 1,
      2 * CHUNK_MAX_CHARS - CHUNK_OVERLAP_CHARS,
      2 * CHUNK_MAX_CHARS - CHUNK_OVERLAP_CHARS + 1 }

ChunkInputs ==
    { [n |-> n, max_chars |-> m, overlap |-> o] :
        n \in 0..MaxBody, m \in 1..MaxChars, o \in 0..(MaxChars - 1) }
    \cup { [n |-> n, max_chars |-> CHUNK_MAX_CHARS, overlap |-> CHUNK_OVERLAP_CHARS] :
             n \in ConfiguredLengths }

\* a text of n characters with white space around it
Padded(lead, n, trail) ==
    [i \in 1..lead |-> 0] \o [i \in 1..n |-> i] \o [i \in 1..trail |-> 0]

\* body.strip()
Strip(body) ==
    LET Inner == {i \in 1..Len(body) : body[i] # 0}
    IN  IF Inner = {} THEN <<>>
        ELSE SubSeq(body, CHOOSE i \in Inner : \A j \in Inner : i <= j,
                          CHOOSE i \in Inner : \A j \in Inner : j <= i)

\* the next chunk starts where the one before ended
NextStart_no_overlap(end, overlap) == end

\* max(0, end - overlap)
NextStart(end, overlap) == IF end - overlap > 0 THEN end - overlap ELSE 0

InitChunk ==
    /\ SessionAtImport
    /\ \E in \in ChunkInputs, lead \in 0..MaxPad, trail \in 0..MaxPad :
          /\ in.overlap < in.max_chars
          /\ crawler = [call |-> "_size_chunk", body |-> Padded(lead, in.n, trail),
                        max_chars |-> in.max_chars, overlap |-> in.overlap,
                        pc |-> "strip", start |-> 0, chunks |-> <<>>]

StripBody ==
    /\ crawler.call = "_size_chunk"
    /\ crawler.pc = "strip"
    /\ crawler' = [crawler EXCEPT !.body = Strip(@), !.pc = "if"]
    /\ SessionIdle

\* if len(body) <= max_chars: return [body]
ReturnWhole ==
    /\ crawler.call = "_size_chunk"
    /\ crawler.pc = "if"
    /\ Len(crawler.body) <= crawler.max_chars
    /\ crawler' = [crawler EXCEPT !.chunks = <<crawler.body>>, !.pc = "returned"]
    /\ SessionIdle

\* chunks, start = [], 0
EnterLoop ==
    /\ crawler.call = "_size_chunk"
    /\ crawler.pc = "if"
    /\ Len(crawler.body) > crawler.max_chars
    /\ crawler' = [crawler EXCEPT !.chunks = <<>>, !.start = 0, !.pc = "while"]
    /\ SessionIdle

\* one test of the while condition and, when it holds, one pass of the
\* loop body; the function returns when the test fails or the pass breaks
WhileStep ==
    /\ crawler.call = "_size_chunk"
    /\ crawler.pc = "while"
    /\ crawler' =
          IF crawler.start < Len(crawler.body)
          THEN LET end == Min(Len(crawler.body), crawler.start + crawler.max_chars)
                   chunk == SubSeq(crawler.body, crawler.start + 1, end)
               IN  IF end = Len(crawler.body)
                   THEN [crawler EXCEPT !.chunks = Append(@, chunk),
                                        !.pc = "returned"]
                   ELSE [crawler EXCEPT !.chunks = Append(@, chunk),
                                        !.start = NextStart(end, crawler.overlap)]
          ELSE [crawler EXCEPT !.pc = "returned"]
    /\ SessionIdle

NextChunk ==
    \/ StripBody
    \/ ReturnWhole
    \/ EnterLoop
    \/ WhileStep

\* the function runs on one thread that nothing holds up
SpecChunk == InitChunk /\ [][NextChunk]_vars /\ WF_vars(NextChunk)

-----------------------------------------------------------------------------
(* Properties of the session (Spec) *)

\* C1: while dry_run is true, every call of apply_diffs returns the dry-run
\* error and leaves the original snapshot, the cached diff batch and the
\* modified snapshot (present or absent) exactly as they were.
C1_DryRunApplyChangesNothing ==
    [][(dry_run /\ ret'.op = "apply_diffs") =>
          /\ ret' = DryRunError
          /\ UNCHANGED <<heap, repo, last_diffs, modified_repo>>]_vars

\* apply_diffs was refused in dry-run although a batch is cached and a
\* modified snapshot of an earlier apply exists
C1_Witness ==
    /\ dry_run
    /\ ret = DryRunError
    /\ last_diffs # <<>>
    /\ modified_repo # NoneRef

\* C2: with dry_run false and an empty cached batch apply_diffs returns the
\* missing-diffs error, which is not the dry-run error; when both
\* preconditions fail it returns the dry-run error; in neither case is a
\* modified snapshot created or replaced.
C2_TwoPreconditionErrors ==
    [][(ret'.op = "apply_diffs" /\ (dry_run \/ last_diffs = <<>>)) =>
          /\ ret'.status = "error"
          /\ ret' = (IF dry_run THEN DryRunError ELSE NoDiffsError)
          /\ DryRunError.message # NoDiffsError.message
          /\ UNCHANGED <<heap, modified_repo>>]_vars

\* apply_diffs was refused for missing diffs, with a snapshot and an
\* artifact loaded and mutation unlocked
C2_Witness ==
    /\ ~dry_run
    /\ last_diffs = <<>>
    /\ ret = NoDiffsError
    /\ Truthy(heap[repo])
    /\ Truthy(artifacts)

\* every operation stores its own name in ret.op, so ret'.op names the
\* operation a step was taken by
NonLoadOps ==
    {"set_dry_run", "add_custom_rule", "suggest_changes", "generate_diffs",
     "apply_diffs", "export_repo_json"}

\* C3: set_dry_run, add_custom_rule, suggest_changes, generate_diffs,
\* apply_diffs and export_repo_json leave the original snapshot as it is,
\* and the modified snapshot is never the original's own object.
C3_OriginalOnlyChangedByLoad ==
    [][ret'.op \in NonLoadOps =>
          (heap'[repo'] = heap[repo] /\ modified_repo' # repo')]_vars

\* a successful apply_diffs rewrote a file, and the original still holds
\* the text it was loaded with
C3_Witness ==
    /\ ret.op = "apply_diffs"
    /\ ret.status = "ok"
    /\ ret.data.applied_files # <<>>
    /\ heap[modified_repo] # heap[repo]

BatchPaths == {last_diffs[k].file : k \in 1..Len(last_diffs)}

\* C4: after a successful apply_diffs, every entry of the modified snapshot
\* whose path is in the cached batch holds the pipeline output of that
\* path's original content, and every other entry equals the original's.
C4_ApplyWritesPipelineOutput ==
    (ret.op = "apply_diffs" /\ ret.status = "ok") =>
        LET orig == heap[repo].files
            mod == heap[modified_repo].files
        IN  /\ Len(mod) = Len(orig)
            /\ \A i \in 1..Len(orig) :
                  IF /\ "path" \in DOMAIN orig[i]
                     /\ "content" \in DOMAIN orig[i]
                     /\ orig[i].path \in BatchPaths
                  THEN mod[i] = File(orig[i].path,
                                     _apply_rules_to_file(St, orig[i].path,
                                                          orig[i].content).content)
                  ELSE mod[i] = orig[i]

ContentAt(files, path) ==
    LET i == CHOOSE j \in 1..Len(files) : Get(files[j], "path", "") = path
    IN  files[i].content

\* C5: when apply_diffs succeeds right after generate_diffs, applied_files
\* is the list of the batch's files in order, and the fingerprint of each
\* content written equals the after_hash of its diff entry.
C5_PreviewAgreesWithApplied ==
    [][(ret.op = "generate_diffs" /\ ret.status = "ok"
            /\ ret'.op = "apply_diffs" /\ ret'.status = "ok") =>
          /\ ret'.data.applied_files = [k \in 1..Len(last_diffs) |-> last_diffs[k].file]
          /\ \A k \in 1..Len(last_diffs) :
                _hash(ContentAt(heap'[modified_repo'].files, last_diffs[k].file))
                    = last_diffs[k].after_hash]_vars

\* C6: after a successful load_repo_json or load_parser_artifacts the
\* session holds no cached diffs and no modified snapshot.
C6_LoadResetsPreview ==
    (ret.op \in {"load_repo_json", "load_parser_artifacts"} /\ ret.status = "ok") =>
        (last_diffs = <<>> /\ modified_repo = NoneRef)

\* C7: no entry of the cached diff batch has changes = 0 and none has
\* before_hash = after_hash.
C7_NoVacuousDiffEntry ==
    \A k \in 1..Len(last_diffs) :
        /\ last_diffs[k].changes # 0
        /\ last_diffs[k].before_hash # last_diffs[k].after_hash

HasNoHints(arts) ==
    LET pri == Get(arts, "prioritized_files", EmptyDict)
    IN  Get(pri, "risky_first", <<>>) = <<>> /\ Get(pri, "all_package_files", <<>>) = <<>>

CodeFilePaths(r) ==
    LET code == SelectSeq(_file_list(r), LAMBDA f : _is_code_file(f.path))
    IN  [i \in 1..Len(code) |-> code[i].path]

\* the files among the code files that the pipeline changes, in order
ChangedCodeFiles(s) ==
    LET code == SelectSeq(_file_list(Repo(s)), LAMBDA f : _is_code_file(f.path))
        hit == SelectSeq(code, LAMBDA f : DiffEntry(s, f) # <<>>)
    IN  [i \in 1..Len(hit) |-> hit[i].path]

\* C10: when the artifact just loaded has no targeting hints, the files
\* suggest_changes lists and generate_diffs processes are exactly the
\* snapshot files with a source extension or the next.config name.
C10_SelectorFallback ==
    [][(ret.op = "load_parser_artifacts" /\ ret.status = "ok"
            /\ HasNoHints(artifacts)) =>
          /\ ret'.op = "suggest_changes" =>
                Get(ret'.data, "considering_files", <<>>) = CodeFilePaths(heap[repo])
          /\ ret'.op = "generate_diffs" =>
                Get(ret'.data, "files_changed", <<>>) = ChangedCodeFiles(St)]_vars

-----------------------------------------------------------------------------
(* Properties of the pipeline (SpecPipeline) *)

\* C8: with no custom rules, running the pipeline on the output of a run
\* returns the same content with change count 0.
C8_BuiltinIdempotent ==
    probe.runs = MaxRuns => (probe.changes = 0 /\ probe.content = probe.before)

-----------------------------------------------------------------------------
(* Properties of the session (Spec), continued *)

HintPaths(arts) ==
    LET pri == Get(arts, "prioritized_files", EmptyDict)
    IN  Range(Get(pri, "risky_first", <<>>)) \cup Range(Get(pri, "all_package_files", <<>>))

Paths(files) == [i \in 1..Len(files) |-> files[i].path]

Hinted(f) == f.path \in HintPaths(artifacts)

HintedSource(f) == Hinted(f) /\ _is_code_file(f.path)

Changes(f) == DiffEntry(St, f) # <<>>

HintedChanges(f) == Hinted(f) /\ Changes(f)

HintedSourceChanges(f) == HintedSource(f) /\ Changes(f)

\* C11: when the artifact has targeting hints, the files suggest_changes
\* lists and generate_diffs processes are exactly the snapshot files whose
\* path is in risky_first or all_package_files.
C11_SelectorHintsOnly ==
    [][~HasNoHints(artifacts) =>
          /\ (ret'.op = "suggest_changes" /\ ret'.status = "ok") =>
                ret'.data.considering_files
                    = Paths(SelectSeq(_file_list(heap[repo]), Hinted))
          /\ (ret'.op = "generate_diffs" /\ ret'.status = "ok") =>
                ret'.data.files_changed
                    = Paths(SelectSeq(_file_list(heap[repo]), HintedChanges))]_vars

\* C11, as the code has it: when the artifact has targeting hints, the
\* files suggest_changes lists and generate_diffs processes are exactly the
\* snapshot files whose path is in risky_first or all_package_files and
\* has a source extension or the next.config name.
C11_SelectorHintsAndExtension ==
    [][~HasNoHints(artifacts) =>
          /\ (ret'.op = "suggest_changes" /\ ret'.status = "ok") =>
                ret'.data.considering_files
                    = Paths(SelectSeq(_file_list(heap[repo]), HintedSource))
          /\ (ret'.op = "generate_diffs" /\ ret'.status = "ok") =>
                ret'.data.files_changed
                    = Paths(SelectSeq(_file_list(heap[repo]), HintedSourceChanges))]_vars

\* suggest_changes listed a hinted source file, left out a source file
\* that is not hinted, and left out a hinted file that is not a source file
C11_Witness ==
    /\ ret.op = "suggest_changes"
    /\ ret.status = "ok"
    /\ ~HasNoHints(artifacts)
    /\ ret.data.considering_files # <<>>
    /\ \E f \in Range(_file_list(heap[repo])) :
          _is_code_file(f.path) /\ f.path \notin HintPaths(artifacts)
    /\ \E f \in Range(_file_list(heap[repo])) :
          ~_is_code_file(f.path) /\ f.path \in HintPaths(artifacts)

\* C14: add_custom_rule returns status ok only for an object that carries
\* name, pattern and replacement, which it appends to the rule list; every
\* other call returns status error and leaves the rule list unchanged.
C14_OnlyFullObjectsRegistered ==
    [][ret'.op = "add_custom_rule" =>
          IF ret'.status = "ok"
          THEN /\ Len(custom_rules') = Len(custom_rules) + 1
               /\ custom_rules' = Append(custom_rules, custom_rules'[Len(custom_rules')])
               /\ IsObject(custom_rules'[Len(custom_rules')])
               /\ {"name", "pattern", "replacement"}
                     \subseteq DOMAIN custom_rules'[Len(custom_rules')]
          ELSE /\ ret'.status = "error"
               /\ custom_rules' = custom_rules]_vars

\* the session state: every field of _STATE
session == <<heap, repo, repo_label, artifacts, dry_run, package_name,
             current_version, target_version, last_guidance, custom_rules,
             last_diffs, modified_repo>>

\* C15: a load_repo_json that returns status error leaves the whole
\* session state, the loaded snapshot and its label included, unchanged.
C15_FailedRepoLoadChangesNothing ==
    [][(ret'.op = "load_repo_json" /\ ret'.status = "error") =>
          UNCHANGED session]_vars

\* C16: a load_parser_artifacts that returns status error leaves the whole
\* session state unchanged: artifact, package name, versions and guidance.
C16_FailedArtifactLoadChangesNothing ==
    [][(ret'.op = "load_parser_artifacts" /\ ret'.status = "error") =>
          UNCHANGED session]_vars

ControlSurface ==
    {"load_repo_json", "load_parser_artifacts", "set_dry_run", "add_custom_rule",
     "suggest_changes", "generate_diffs", "apply_diffs", "export_repo_json"}

\* C17: every control-surface operation returns a payload with status ok,
\* or status error and a message; none ends with an exception.
C17_AlwaysStructuredStatus ==
    ret.op \in ControlSurface =>
        \/ ret.status = "ok"
        \/ ret.status = "error" /\ ret.message # ""

\* a session with the same snapshot, artifact, context and rules and an
\* empty cached batch
WithoutBatch == [St EXCEPT !.last_diffs = <<>>]

\* C18: a generate_diffs that returns ok leaves the batch it computes from
\* the current snapshot, artifact, context and rules alone, with at most
\* one entry for each selected file, so that a second call in a row leaves
\* the same batch; a call that fails its precondition leaves the cached
\* batch unchanged.
C18_GenerateRecomputes ==
    [][ret'.op = "generate_diffs" =>
          /\ ret'.status = "ok" =>
                /\ \A w \in {WithoutBatch} : last_diffs' = generate_diffs(w).last_diffs
                /\ Len(last_diffs') <= Len(Considered(St))
                /\ (ret.op = "generate_diffs" /\ ret.status = "ok") =>
                      last_diffs' = last_diffs
          /\ ret'.status = "error" =>
                /\ ~Truthy(heap[repo]) \/ ~Truthy(artifacts)
                /\ last_diffs' = last_diffs]_vars

\* generate_diffs returned a batch that is not empty in a session where an
\* earlier batch was applied, and the new batch is not the applied one
C18_Witness ==
    /\ ret.op = "generate_diffs"
    /\ ret.status = "ok"
    /\ last_diffs # <<>>
    /\ modified_repo # NoneRef
    /\ \E k \in 1..Len(last_diffs) :
          _hash(ContentAt(heap[modified_repo].files, last_diffs[k].file))
              # last_diffs[k].after_hash

\* C19: once load_parser_artifacts has returned ok on a session that holds
\* a snapshot load_repo_json accepted, suggest_changes and generate_diffs
\* return ok, also for an artifact without any targeting hint.
C19_LoadedMeansReady ==
    [][(/\ ret.op = "load_parser_artifacts"
        /\ ret.status = "ok"
        /\ Truthy(heap[repo])
        /\ ~FileListRaises(heap[repo])
        /\ ret'.op \in {"suggest_changes", "generate_diffs"}) =>
          ret'.status = "ok"]_vars

\* C20: export_repo_json writes the modified snapshot when there is one and
\* the original otherwise, returns status error when no snapshot is loaded,
\* and leaves every field of the session state as it was.
C20_ExportWritesCurrentSnapshot ==
    [][ret'.op = "export_repo_json" =>
          /\ UNCHANGED session
          /\ IF modified_repo = NoneRef /\ heap[repo] = EmptyDict
             THEN /\ ret'.status = "error"
                  /\ ret'.message = "no repo loaded"
                  /\ ret'.wrote = EmptyDict
             ELSE ret'.wrote.text =
                    JsonDumps(IF modified_repo # NoneRef
                              THEN heap[modified_repo] ELSE heap[repo])]_vars

\* export_repo_json wrote a modified snapshot that differs from the original
C20_Witness ==
    /\ ret.op = "export_repo_json"
    /\ ret.status = "ok"
    /\ modified_repo # NoneRef
    /\ heap[modified_repo] # heap[repo]
    /\ ret.wrote.text = JsonDumps(heap[modified_repo])

-----------------------------------------------------------------------------
(* Properties of the rule engine (SpecRules) *)

\* the n-th rule of the whole list, built-in rules first, applied to what
\* the rules before it made of the file
StepAt(n, path, acc) ==
    IF n <= Len(_BUILTIN_RULES)
    THEN IF applicable(_BUILTIN_RULES[n], path, acc.content, _context(St))
         THEN LET r == transform(_BUILTIN_RULES[n], path, acc.content, _context(St))
              IN  Result(r.content, acc.changes + r.changes, acc.notes \o r.notes)
         ELSE acc
    ELSE CustomStep(custom_rules[n - Len(_BUILTIN_RULES)], acc)

RECURSIVE AfterRule(_, _, _)
AfterRule(n, path, content) ==
    IF n = 0 THEN Result(content, 0, <<>>)
    ELSE StepAt(n, path, AfterRule(n - 1, path, content))

\* C12: the pipeline's result is what the rules make of the content one
\* after the other, the built-in rules in registration order and then the
\* custom rules in the order they were added, each working on the content
\* the one before it left; the change count is the sum of the rules'
\* counts and the notes are theirs in that order.
C12_OrderedFold ==
    probe.runs = 1 =>
        LET out == AfterRule(Len(_BUILTIN_RULES) + Len(custom_rules),
                             probe.path, probe.before)
        IN  /\ probe.content = out.content
            /\ probe.changes = out.changes
            /\ probe.notes = out.notes

\* a built-in rule and two custom rules each changed the file, the second
\* custom rule working on what the first one wrote
C12_Witness ==
    /\ probe.runs = 1
    /\ Len(custom_rules) = 2
    /\ probe.changes = 3
    /\ Len(probe.notes) = 3
    /\ probe.content = <<"NN", "BAR">>

\* the pattern does not compile, or the replacement cannot be applied
Fails(cr) == ~cr.pattern.compiles \/ BackRef \in Range(cr.replacement)

ErrorNote(cr) == Note("Custom rule error (" \o cr.name \o ")", <<>>)

IsErrorNote(note) == \E cr \in PipelineRules : note = ErrorNote(cr)

\* the session with the failing custom rules taken out of the list
WithoutFailing == [St EXCEPT !.custom_rules = SelectSeq(custom_rules, LAMBDA cr : ~Fails(cr))]

\* the run of the pipeline recorded in pr gave the content and the count
\* that the rules that do not fail give, their notes in their order, and
\* one error note for each failing rule, in the order of the rules
IsolatesFailures(pr) ==
    pr.runs = 1 =>
        \A w \in {WithoutFailing} :
        \A good \in {_apply_rules_to_file(w, pr.path, pr.before)} :
        \A failing \in {SelectSeq(custom_rules, Fails)} :
            /\ pr.content = good.content
            /\ pr.changes = good.changes
            /\ SelectSeq(pr.notes, LAMBDA n : ~IsErrorNote(n)) = good.notes
            /\ SelectSeq(pr.notes, IsErrorNote)
                  = [i \in 1..Len(failing) |-> ErrorNote(failing[i])]

\* C13: a custom rule whose pattern does not compile or whose replacement
\* cannot be applied leaves the content and the change count as they
\* reached it and adds one error note naming it; the later custom rules
\* still run, and generate_diffs and apply_diffs return what they return
\* without the failing rules, for every file of the run.
C13_FailingRuleIsolated ==
    [][/\ \A pr \in {probe'} : IsolatesFailures(pr)
       /\ ret'.op = "generate_diffs" =>
             \A w \in {WithoutFailing} : \A g \in {generate_diffs(w)} :
                /\ ret'.status = "ok"
                /\ ret'.data.files_changed = g.ret.data.files_changed
                /\ \A k \in 1..Len(last_diffs') :
                      last_diffs'[k].after_hash = g.last_diffs[k].after_hash
       /\ ret'.op = "apply_diffs" =>
             \A w \in {WithoutFailing} : \A a \in {apply_diffs(w)} :
                /\ ret' = a.ret
                /\ ret'.status = "ok" => heap'[modified_repo'] = ModifiedRepo(a)]_vars

\* apply_diffs rewrote both files of the snapshot with a rule that comes
\* after a failing one, and the batch carries the failing rule's note
C13_Witness ==
    /\ ret.op = "apply_diffs"
    /\ ret.status = "ok"
    /\ Len(custom_rules) = 2
    /\ Fails(custom_rules[1])
    /\ ~Fails(custom_rules[2])
    /\ Len(ret.data.applied_files) = 2
    /\ \A k \in 1..Len(last_diffs) :
          /\ ErrorNote(custom_rules[1]) \in Range(last_diffs[k].notes)
          /\ Note("Custom rule applied: " \o custom_rules[2].name, <<>>)
                \in Range(last_diffs[k].notes)

-----------------------------------------------------------------------------
(* Properties of the session (Spec): the dry-run flag, retrieval failures, *)
(* recovery after errors, the composite operation                          *)

\* the session with the other value of the dry-run flag
FlagFlipped == [St EXCEPT !.dry_run = ~dry_run]

\* the snapshots of a session: the objects and the two names for them
Snapshots(s) == <<s.heap, s.repo, s.modified_repo>>

\* C21: in two sessions that differ only in the dry-run flag,
\* generate_diffs leaves the same cached batch and returns the same
\* payload, and load_repo_json, load_parser_artifacts, set_dry_run,
\* add_custom_rule, suggest_changes and export_repo_json leave the same
\* snapshots, for every argument.
C21_DryRunPureGate ==
    \A w \in {FlagFlipped} :
        /\ \A g \in {generate_diffs(St)} : \A gw \in {generate_diffs(w)} :
              /\ g.last_diffs = gw.last_diffs
              /\ g.ret = gw.ret
              /\ Snapshots(g) = Snapshots(gw)
        /\ \A p \in {Json(v) : v \in RepoValues} \cup {Malformed} :
              Snapshots(load_repo_json(St, p)) = Snapshots(load_repo_json(w, p))
        /\ \A p \in {Json(v) : v \in ArtifactValues} \cup {Malformed}, rag \in RagResults :
              Snapshots(load_parser_artifacts(St, p, rag))
                  = Snapshots(load_parser_artifacts(w, p, rag))
        /\ \A flag_str \in FlagStrings :
              Snapshots(set_dry_run(St, flag_str)) = Snapshots(set_dry_run(w, flag_str))
        /\ \A p \in {Json(v) : v \in RuleValues}
                        \cup {JsonOther(v) : v \in RuleOthers} \cup {Malformed} :
              Snapshots(add_custom_rule(St, p)) = Snapshots(add_custom_rule(w, p))
        /\ Snapshots(suggest_changes(St)) = Snapshots(suggest_changes(w))
        /\ \A path_str \in PathStrings :
              /\ Snapshots(export_repo_json(St, path_str))
                    = Snapshots(export_repo_json(w, path_str))
              /\ export_repo_json(St, path_str).ret = export_repo_json(w, path_str).ret

\* generate_diffs has just left a batch that is not empty, in a session
\* where apply_diffs writes a modified snapshot with the flag one way and
\* none with the flag the other way
C21_Witness ==
    /\ ret.op = "generate_diffs"
    /\ ret.status = "ok"
    /\ last_diffs # <<>>
    /\ apply_diffs(St).ret.status # apply_diffs(FlagFlipped).ret.status
    /\ Snapshots(apply_diffs(St)) # Snapshots(apply_diffs(FlagFlipped))

\* the artifacts whose guidance entries are all objects
SoundArtifacts == {v \in ArtifactValues : ~CompactRaises(v)}

\* what the core operations give in session s: the payloads of
\* suggest_changes (but for the guidance it echoes) and generate_diffs, the
\* cached batch, and the payload and the snapshots of an apply_diffs with
\* mutation unlocked
CoreOutcome(s) ==
    LET sg == suggest_changes(s)
        g == generate_diffs(s)
        a == apply_diffs([g EXCEPT !.dry_run = FALSE])
    IN  <<sg.ret.status, Get(sg.ret.data, "considering_files", <<>>),
          g.ret, g.last_diffs, a.ret, Snapshots(a)>>

\* C22: when the live retrieval query fails or matches nothing,
\* load_parser_artifacts returns ok for every artifact whose guidance
\* entries are objects, the guidance map is what the compaction of the
\* artifact gives, without a supplemental topic, and suggest_changes,
\* generate_diffs and apply_diffs give what they give after a retrieval
\* that matched.
C22_RetrievalFailureTolerated ==
    \A v \in SoundArtifacts :
    \A s0 \in {load_parser_artifacts(St, Json(v), <<>>)} :
        /\ s0.ret.status = "ok"
        /\ s0.last_guidance = _compact_guidance_from_artifacts(v)
        /\ "supplemental" \notin DOMAIN s0.last_guidance
        /\ s0.ret.data.topics = DOMAIN _compact_guidance_from_artifacts(v)
        /\ \A rag \in RagResults \ {<<>>} :
           \A s1 \in {load_parser_artifacts(St, Json(v), rag)} :
           \A c0 \in {CoreOutcome(s0)} : c0 = CoreOutcome(s1)

\* apply_diffs rewrote a file in a session whose artifact names a package
\* and a target version and carries one guidance topic, and whose guidance
\* map holds that topic alone: the retrieval gave nothing
C22_Witness ==
    /\ ret.op = "apply_diffs"
    /\ ret.status = "ok"
    /\ package_name # ""
    /\ target_version # <<>>
    /\ DOMAIN last_guidance = {"routing"}
    /\ last_guidance = _compact_guidance_from_artifacts(artifacts)

Structured(r) == r.status = "ok" \/ (r.status = "error" /\ r.message # "")

\* C23: from every reachable state, load_repo_json with a valid snapshot,
\* load_parser_artifacts with a valid artifact, set_dry_run("false"),
\* generate_diffs and apply_diffs each return a structured payload, and
\* since the rules change a selected file of that snapshot, the last step
\* leaves a modified snapshot.
C23_SessionRecovers ==
    \A s1 \in {load_repo_json(St, Json(DemoRepo))} :
    \A s2 \in {load_parser_artifacts(s1, Json(DemoArtifacts), <<>>)} :
    \A s3 \in {set_dry_run(s2, "false")} :
    \A s4 \in {generate_diffs(s3)} :
    \A s5 \in {apply_diffs(s4)} :
        /\ s1.ret.status = "ok"
        /\ s2.ret.status = "ok"
        /\ s3.ret.status = "ok"
        /\ Structured(s4.ret)
        /\ Structured(s5.ret)
        /\ s5.modified_repo # NoneRef
        /\ ModifiedRepo(s5) # Repo(s5)

-----------------------------------------------------------------------------
(* Properties of the rule engine (SpecRules), continued *)

\* C24: with any custom rules that add_custom_rule accepts, running the
\* pipeline on the output of a run returns the same content with change
\* count 0.
C24_CustomRulesIdempotent ==
    probe.runs = 2 => (probe.changes = 0 /\ probe.content = probe.before)

-----------------------------------------------------------------------------
(* Properties of the pipeline (SpecPipeline), continued *)

\* what the first rule of the pipeline makes of the content the run
\* started from
FirstRule ==
    IF applicable(_BUILTIN_RULES[1], probe.path, probe.before, _context(St))
    THEN transform(_BUILTIN_RULES[1], probe.path, probe.before, _context(St))
    ELSE Result(probe.before, 0, <<>>)

NamedImports(content) == {i \in 1..Len(content) : content[i] = "NR"}

\* C25: with a package name that starts with next, the first rule writes
\* the next/navigation import in the place of every named useRouter import
\* from next/router and leaves the rest of the content as it is; it counts
\* 1 change and gives one note when there is at least one such import,
\* however many, and counts 0 and gives no note when there is none; the
\* run of the pipeline starts with that note and counts that change.
C25_NamedImportRewrite ==
    (probe.runs >= 1 /\ StartsWith(package_name, "next")) =>
        \A r \in {FirstRule} :
            /\ Len(r.content) = Len(probe.before)
            /\ \A i \in 1..Len(probe.before) :
                  r.content[i] = (IF i \in NamedImports(probe.before)
                                  THEN "NN" ELSE probe.before[i])
            /\ r.changes = (IF NamedImports(probe.before) # {} THEN 1 ELSE 0)
            /\ Len(r.notes) = r.changes
            /\ probe.changes >= r.changes
            /\ SubSeq(probe.notes, 1, r.changes) = r.notes

\* a run on a file with two named imports: both were rewritten and the
\* count is 1
C25_Witness ==
    /\ probe.runs = 1
    /\ package_name = "next"
    /\ probe.before = <<"NR", "NR">>
    /\ probe.content = <<"NN", "NN">>
    /\ probe.changes = 1
    /\ Len(probe.notes) = 1

-----------------------------------------------------------------------------
(* Properties of the session (Spec): the composite operation *)

\* every field of _STATE in session s
SessionOf(s) ==
    <<s.heap, s.repo, s.repo_label, s.artifacts, s.dry_run, s.package_name,
      s.current_version, s.target_version, s.last_guidance, s.custom_rules,
      s.last_diffs, s.modified_repo>>

\* C26: a full_codemod whose repository payload or whose artifact payload
\* the load step rejects returns status error and leaves every field of
\* the session state as it was.
C26_CompositeAbortsOnInvalid ==
    \A dry_run_str \in {"false", ""} :
    \A out \in {full_codemod(St, Malformed, Json(DemoArtifacts), <<>>, dry_run_str),
                full_codemod(St, Json(DemoRepo), Malformed, <<>>, dry_run_str)} :
        /\ out.ret.status = "error"
        /\ SessionOf(out) = SessionOf(St)

-----------------------------------------------------------------------------
(* Properties of the crawler's retry loop (SpecParsePage) *)

\* the longest wait of a call with these settings
LongestWait(c) == c.retry_delay * Pow2(c.max_retries - 2)

\* C27: parse_page makes at most max_retries fetches and none after a
\* success; the wait after failed attempt k (from 0) is
\* retry_delay * 2^k and there is one after every failed attempt but the
\* last, so that no wait is longer than retry_delay * 2^(max_retries-2);
\* when the last attempt fails it returns None with no further wait; the
\* call returns a page or None and never raises.
C27_BoundedRetryWithBackoff ==
    LET c == crawler
    IN  /\ c.fetches <= c.max_retries
        /\ c.result \in {"running", "page", "None"}
        /\ c.result # "running" <=> c.pc = "returned"
        /\ \A k \in 1..Len(c.waits) :
              /\ c.waits[k] = c.retry_delay * Pow2(k - 1)
              /\ c.waits[k] <= LongestWait(c)
        /\ c.pc = "for" => (Len(c.waits) = c.fetches /\ c.attempt = c.fetches)
        /\ c.pc = "sleep" => Len(c.waits) = c.fetches - 1
        /\ c.result = "page" => Len(c.waits) = c.fetches - 1
        /\ c.result = "None" =>
              /\ c.fetches = c.max_retries
              /\ Len(c.waits) = (IF c.max_retries = 0 THEN 0 ELSE c.max_retries - 1)

\* with the default settings all three attempts failed: the call waited 1
\* and then 2 and returned None
C27_Witness ==
    /\ crawler.max_retries = 3
    /\ crawler.retry_delay = 1
    /\ crawler.result = "None"
    /\ crawler.fetches = 3
    /\ crawler.waits = <<1, 2>>

-----------------------------------------------------------------------------
(* Properties of the crawler's scan (SpecScan) *)

PageUrls(pages) == {pages[i].url : i \in 1..Len(pages)}

\* C28: whatever the order in which the page tasks complete, the scan goes
\* on until it returns: no outcome of a task stops it.  Every URL the main
\* thread has taken is in exactly one of the parsed pages and the failed
\* URLs, once: in the parsed pages when its task returned a page, in the
\* failed URLs when it returned None or raised.  The result holds every
\* discovered URL that way, with successful_parses + failed_parses =
\* total_urls, and its pages are the parsed pages alone.
C28_ScanPartitionsUrls ==
    LET c == crawler
    IN  /\ c.pc \in {"as_completed", "returned"}
        /\ c.pc = "as_completed" => ENABLED NextScan
        /\ PageUrls(c.parsed) = {u \in c.handled : c.task[u] = "page"}
        /\ Range(c.failed) = {u \in c.handled : c.task[u] \in {"None", "raised"}}
        /\ Len(c.parsed) + Len(c.failed) = Cardinality(c.handled)
        /\ c.pc = "returned" =>
              /\ PageUrls(c.result.pages) \cup Range(c.result.failed_urls) = c.all_urls
              /\ PageUrls(c.result.pages) \cap Range(c.result.failed_urls) = {}
              /\ PageUrls(c.result.pages) = {u \in c.all_urls : c.task[u] = "page"}
              /\ c.result.successful_parses = Len(c.result.pages)
              /\ c.result.failed_parses = Len(c.result.failed_urls)
              /\ c.result.successful_parses + c.result.failed_parses
                    = c.result.total_urls
              /\ c.result.total_urls = Cardinality(c.all_urls)

\* a scan of three URLs returned: one task raised, one returned None and
\* one returned a page, and the task that raised was taken first
C28_Witness ==
    /\ crawler.pc = "returned"
    /\ Cardinality(crawler.all_urls) = 3
    /\ crawler.result.successful_parses = 1
    /\ crawler.result.failed_parses = 2
    /\ {crawler.task[u] : u \in crawler.all_urls} = Outcomes
    /\ crawler.task[crawler.failed[1]] = "raised"

-----------------------------------------------------------------------------
(* Properties of the batched upsert (SpecUpsert) *)

\* the batches submitted, one after the other
Batches(c) == [k \in 1..Len(c.submitted) |-> c.submitted[k].batch]

\* the number of records in the batches whose write went through
RECURSIVE Written(_)
Written(submitted) ==
    IF submitted = <<>> THEN 0
    ELSE (IF Head(submitted).ok THEN Len(Head(submitted).batch) ELSE 0)
            + Written(Tail(submitted))

\* C29: for every requested batch size of at least 1, the batches
\* submitted so far hold the records before position i, each once and in
\* input order; no batch is empty or longer than 96; after a batch, failed
\* or not, the loop goes on; and the result holds every record in a batch,
\* failed_batches = the number of batches whose write failed and
\* upserted = the number of records in the batches whose write went
\* through.
C29_BatchedUpsert ==
    LET c == crawler
        failedOnes == {k \in 1..Len(c.submitted) : ~c.submitted[k].ok}
    IN  /\ Flatten(Batches(c)) = SubSeq(c.records, 1, Min(c.i, Len(c.records)))
        /\ \A k \in 1..Len(c.submitted) :
              /\ Len(c.submitted[k].batch) >= 1
              /\ Len(c.submitted[k].batch) <= 96
        /\ c.failed_batches = Cardinality(failedOnes)
        /\ c.total = Written(c.submitted)
        /\ c.pc = "for" => ENABLED NextUpsert
        /\ c.pc = "returned" =>
              /\ Flatten(Batches(c)) = c.records
              /\ c.result.failed_batches = Cardinality(failedOnes)
              /\ c.result.upserted = Written(c.submitted)
              /\ c.result.total_records = Len(c.records)
              /\ c.result.batch_size <= 96

\* a call with a batch size above the limit returned after three batches,
\* of which the first failed: the records of the other two are counted
C29_Witness ==
    /\ crawler.pc = "returned"
    /\ crawler.requested > PINECONE_MAX_BATCH_SIZE
    /\ Len(crawler.submitted) = 3
    /\ ~crawler.submitted[1].ok
    /\ crawler.submitted[2].ok
    /\ crawler.submitted[3].ok
    /\ crawler.result.failed_batches = 1
    /\ crawler.result.upserted = Len(crawler.records) - PINECONE_MAX_BATCH_SIZE

-----------------------------------------------------------------------------
(* Properties of the guidance compaction (Spec) *)

\* the references of the guidance entries of topic t, in order
ReferencesOf(arts, t) ==
    LET entries == SelectSeq(Get(arts, "rag_guidance", <<>>),
                             LAMBDA g : Get(g, "topic", "misc") = t)
    IN  Flatten([i \in 1..Len(entries) |-> Get(entries[i], "references", <<>>)])

\* kw occurs in the snippet, letter case ignored
OccursIgnoringCase(kw, snippet) == Contains(Lower(snippet), Lower(kw))

HintsOf(refs) ==
    SelectSeq(KeywordsSorted,
              LAMBDA kw : \E i \in 1..Len(refs) :
                             OccursIgnoringCase(kw, Get(refs[i], "snippet", "")))

UrlsOf(refs) ==
    Dedupe(SelectSeq([i \in 1..Len(refs) |-> Get(refs[i], "url", "")],
                     LAMBDA u : u # ""))

\* C30: after a load_parser_artifacts that returns ok, every topic of the
\* guidance map that comes from the artifact holds as hints the sorted,
\* duplicate-free list of the vocabulary keywords (useRouter included) that
\* occur, letter case ignored, in a snippet of the topic's references, and
\* as urls the references' non-empty URLs in order of first occurrence,
\* each once.
C30_GuidanceCompaction ==
    [][(ret'.op = "load_parser_artifacts" /\ ret'.status = "ok") =>
          \A t \in DOMAIN last_guidance' \ {"supplemental"} :
          \A refs \in {ReferencesOf(artifacts', t)} :
              /\ last_guidance'[t].hints = HintsOf(refs)
              /\ last_guidance'[t].urls = UrlsOf(refs)]_vars

-----------------------------------------------------------------------------
(* Properties of the rule engine (SpecRules): changes and the diff batch *)

\* the selected files whose content the pipeline alters
Altered(s) ==
    SelectSeq(Considered(s),
              LAMBDA f : _apply_rules_to_file(s, f.path, f.content).content # f.content)

\* C31: a run of _apply_rules_to_file that returns a content different from
\* its input returns a change count of at least 1 (a count of 0 means the
\* content is returned as it was), and after generate_diffs every selected
\* file that the rules alter is in the diff batch.
C31_NoSilentChange ==
    /\ probe.runs >= 1 =>
           /\ probe.content # probe.before => probe.changes >= 1
           /\ probe.changes = 0 => probe.content = probe.before
    /\ (ret.op = "generate_diffs" /\ ret.status = "ok") =>
           \A f \in Range(Altered(St)) : f.path \in BatchPaths

\* a custom rule and a built-in rule have both altered one file, which
\* generate_diffs has put in the batch
C31_Witness ==
    /\ probe.runs = 1
    /\ probe.content # probe.before
    /\ probe.changes = 2
    /\ ret.op = "generate_diffs"
    /\ ret.status = "ok"
    /\ probe.path \in BatchPaths

-----------------------------------------------------------------------------
(* Properties of the session (Spec): the modified snapshot *)

\* file g is file f with, at most, another content
SameButContent(f, g) ==
    /\ DOMAIN f = DOMAIN g
    /\ \A key \in DOMAIN f \ {"content"} : f[key] = g[key]

\* snapshot m has the files of snapshot r, in the same order, and differs
\* from r in no more than the content of files
DerivedFrom(m, r) ==
    /\ DOMAIN m = DOMAIN r
    /\ \A key \in DOMAIN r \ {"files"} : m[key] = r[key]
    /\ Len(Get(m, "files", <<>>)) = Len(Get(r, "files", <<>>))
    /\ \A i \in 1..Len(Get(r, "files", <<>>)) :
           SameButContent(r.files[i], m.files[i])

\* C32: whenever a modified snapshot exists, it was derived from the
\* snapshot currently loaded: it has the same files in the same order as
\* the original snapshot and differs from it only in the content of files.
C32_ModifiedDerivedFromLoaded ==
    modified_repo # NoneRef => DerivedFrom(heap[modified_repo], heap[repo])

-----------------------------------------------------------------------------
(* Properties of the session (Spec): what apply_diffs touches *)

\* the entry is a file that the cached batch names
NamedInBatch(f) == "path" \in DOMAIN f /\ f.path \in BatchPaths

\* the paths of the entries of the loaded snapshot
SnapshotPaths ==
    {Get(f, "path", "") : f \in Range(Get(heap[repo], "files", <<>>))} \ {""}

\* C33: an apply_diffs that gets past its two checks returns ok; every entry
\* of the snapshot that the cached batch does not name has, in the modified
\* snapshot, the content it has in the original, and a path of the batch
\* that the loaded snapshot does not hold is not listed in applied_files.
C33_ApplyTouchesOnlyBatch ==
    [][(ret'.op = "apply_diffs" /\ ~dry_run /\ last_diffs # <<>>) =>
          /\ ret'.status = "ok"
          /\ Len(heap'[modified_repo'].files) = Len(heap[repo].files)
          /\ \A i \in 1..Len(heap[repo].files) :
                 ~NamedInBatch(heap[repo].files[i]) =>
                     heap'[modified_repo'].files[i] = heap[repo].files[i]
          /\ \A path \in BatchPaths \ SnapshotPaths :
                 path \notin Range(ret'.data.applied_files)]_vars

-----------------------------------------------------------------------------
(* Properties of the rule engine (SpecRules): apply_diffs repeated *)

\* the content the pipeline makes of file f of the original snapshot
Once(f) == _apply_rules_to_file(St, f.path, f.content).content

\* C34: an apply_diffs that directly follows a successful apply_diffs
\* returns the same payload and leaves an equal modified snapshot, in which
\* every file holds its original content or what one run of the pipeline
\* makes of it, never the output of a second run, also for a custom rule
\* that is not idempotent.
C34_ApplyRepeatable ==
    [][(ret.op = "apply_diffs" /\ ret.status = "ok" /\ ret'.op = "apply_diffs") =>
          /\ ret' = ret
          /\ heap'[modified_repo'] = heap[modified_repo]
          /\ \A i \in 1..Len(heap[repo].files) :
                 heap'[modified_repo'].files[i].content
                     \in {heap[repo].files[i].content, Once(heap[repo].files[i])}]_vars

-----------------------------------------------------------------------------
(* Properties of the session (Spec): unlocking mutation *)

\* the argument, stripped and in lower case, is a word for false
DenotesFalse(flag_str) == StripLower(flag_str) \in {"0", "false", "no", "n", "off"}

\* C35: the dry-run flag is true at the start, no operation other than
\* set_dry_run and full_codemod changes it, and set_dry_run leaves it false
\* only for an argument that denotes false: an empty or unrecognized
\* argument leaves it true.
C35_ExplicitUnlock ==
    /\ dry_run = TRUE
    /\ [][/\ ret'.op \notin {"set_dry_run", "full_codemod"} => dry_run' = dry_run
          /\ ret'.op = "set_dry_run" =>
                \A flag_str \in FlagStrings :
                    (dry_run' = set_dry_run(St, flag_str).dry_run /\ ~dry_run')
                        => DenotesFalse(flag_str)]_vars

-----------------------------------------------------------------------------
(* Properties of the pipeline (SpecPipeline): the package family *)

\* the n-th built-in rule is applied in the run of the pipeline on the
\* probe's input
Fires(n) ==
    applicable(_BUILTIN_RULES[n], probe.path,
               AfterRule(n - 1, probe.path, probe.before).content, _context(St))

\* the session with a snapshot that holds the probe's input as its one file
WithProbeFile ==
    [St EXCEPT !.heap = [heap EXCEPT ![repo] =
                            [files |-> <<File(probe.path, probe.before)>>]]]

\* C36: with no custom rule, a package name that starts with neither next
\* nor react makes the pipeline return the file unchanged with count 0 and
\* no note, and generate_diffs cache an empty batch; for a name that starts
\* with next the react rule is not applied, and for a name that starts with
\* react none of the four next rules is.
C36_PackageFamilyGate ==
    probe.runs >= 1 =>
        /\ (~StartsWith(package_name, "next") /\ ~StartsWith(package_name, "react")) =>
               /\ probe.content = probe.before
               /\ probe.changes = 0
               /\ probe.notes = <<>>
               /\ \A s \in {generate_diffs(WithProbeFile)} :
                      s.ret.status = "ok" /\ s.last_diffs = <<>>
        /\ StartsWith(package_name, "next") => ~Fires(5)
        /\ StartsWith(package_name, "react") => \A n \in 1..4 : ~Fires(n)

\* the pipeline has run, for a package of neither family, on a source file
\* with an import and a render call that rules of the two families rewrite
C36_Witness ==
    /\ probe.runs = 1
    /\ package_name = "vue"
    /\ probe.path = "src/a.js"
    /\ probe.before = <<"NR", "RD">>
    /\ probe.content = probe.before

-----------------------------------------------------------------------------
(* Properties of the session (Spec): the guidance map and the transforms *)

\* guidance maps: none, one topic of the artifact, and that topic with the
\* supplemental one
GuidanceMaps ==
    { EmptyDict,
      [routing |-> [hints |-> <<"replace", "router">>,
                    urls |-> <<"https://nextjs.org/docs/app">>]],
      [routing |-> [hints |-> <<"replace", "router">>,
                    urls |-> <<"https://nextjs.org/docs/app">>],
       supplemental |-> [hints |-> <<"migration", "api", "rename">>,
                         urls |-> <<"https://nextjs.org/docs/upgrading">>]] }

\* C37: a session that differs from the current one in the guidance map
\* alone, with or without the supplemental topic, gets the same selection
\* of files, the same diff batch and payload from generate_diffs, and the
\* same payload and modified snapshot from apply_diffs.
C37_GuidanceDoesNotSteer ==
    \A c \in {CoreOutcome(St)} :
    \A g \in GuidanceMaps :
        CoreOutcome([St EXCEPT !.last_guidance = g]) = c

\* apply_diffs rewrote a file in a session whose guidance map holds the
\* supplemental topic
C37_Witness ==
    /\ ret.op = "apply_diffs"
    /\ ret.status = "ok"
    /\ ret.data.applied_files # <<>>
    /\ "supplemental" \in DOMAIN last_guidance

-----------------------------------------------------------------------------
(* Properties of the guidance compaction (SpecGuidance) *)

\* C38: after a load_parser_artifacts that returns ok, every non-empty
\* reference URL of every guidance entry of the artifact is in the urls
\* list that the guidance map holds under the entry's topic, also when
\* several entries carry the same topic.
C38_NoReferenceLost ==
    (ret.op = "load_parser_artifacts" /\ ret.status = "ok") =>
        \A g \in Range(Get(artifacts, "rag_guidance", <<>>)) :
        \A r \in Range(g.references) :
            r.url # "" =>
                /\ g.topic \in DOMAIN last_guidance
                /\ r.url \in Range(last_guidance[g.topic].urls)

-----------------------------------------------------------------------------
(* Properties of the chunking (SpecChunk) *)

\* the characters of a text
Chars(text) == Range(text)

\* what holds of the chunks cut so far, and of all of them at the return
ChunksCoverBody ==
    LET c == crawler
    IN  /\ \A k \in 1..Len(c.chunks) : Len(c.chunks[k]) <= c.max_chars
        /\ \A k \in 1..(Len(c.chunks) - 1) :
              /\ c.chunks[k][1] < c.chunks[k + 1][1]
              /\ Cardinality(Chars(c.chunks[k]) \cap Chars(c.chunks[k + 1])) = c.overlap
              /\ SubSeq(c.chunks[k], Len(c.chunks[k]) - c.overlap + 1, Len(c.chunks[k]))
                    = SubSeq(c.chunks[k + 1], 1, c.overlap)
        /\ c.pc = "returned" =>
              /\ Len(c.chunks) >= 1
              /\ UNION {Chars(c.chunks[k]) : k \in 1..Len(c.chunks)} = Chars(c.body)
              /\ 0 \notin Chars(c.body)
              /\ c.body # <<>> =>
                    /\ c.chunks[1][1] = c.body[1]
                    /\ c.chunks[Len(c.chunks)][Len(c.chunks[Len(c.chunks)])]
                          = c.body[Len(c.body)]

\* C39: for every text and every max_chars and overlap with
\* 0 <= overlap < max_chars, the configured 1200 and 150 included,
\* _size_chunk returns; every chunk has at most max_chars characters, each
\* chunk starts later in the text than the one before and shares exactly
\* its first overlap characters with the end of the one before, and the
\* chunks returned cover the stripped text from its first character to
\* its last.
C39_ChunkingTerminatesAndCovers ==
    /\ []ChunksCoverBody
    /\ <>(crawler.pc = "returned")

\* with the configured parameters a text of 2251 characters came back in
\* three chunks
C39_Witness ==
    /\ crawler.call = "_size_chunk"
    /\ crawler.pc = "returned"
    /\ crawler.max_chars = CHUNK_MAX_CHARS
    /\ crawler.overlap = CHUNK_OVERLAP_CHARS
    /\ Len(crawler.body) = 2 * CHUNK_MAX_CHARS - CHUNK_OVERLAP_CHARS + 1
    /\ Len(crawler.chunks) = 3

====
